---------------------------- MODULE Spec2Model ----------------------------
(***************************************************************************)
(* A model of marxs.simulator.Parallel (the "ParallelAssembly"): the       *)
(* inputs elem_pos, elem_uncertainty, uncertainty, elem_args and pos4d,    *)
(* the derived list `elements`, and generate_elements(), which composes    *)
(* every element's final 4x4 transform from an ordered product of factors. *)
(*                                                                         *)
(* Affine transforms are 4x4 integer matrices, written as tuples of rows.  *)
(* Rotations are quarter turns, zooms are positive integers and shears are *)
(* integers, so that every decomposition is exact in integer arithmetic.   *)
(* Python lists are 0-based and TLA+ sequences 1-based: the element with   *)
(* Python index i is entry i+1 of a sequence.                              *)
(***************************************************************************)
EXTENDS Integers, Sequences, FiniteSets, TLC

(***************************************************************************)
(* Bounds of the model.                                                    *)
(***************************************************************************)
\* the longest elem_pos / elem_uncertainty list the model assigns
MaxElems == 2

(***************************************************************************)
(* Linear algebra on 3-vectors, 3x3 and 4x4 matrices (numpy).              *)
(***************************************************************************)
eye3 == << <<1, 0, 0>>, <<0, 1, 0>>, <<0, 0, 1>> >>

eye4 == << <<1, 0, 0, 0>>, <<0, 1, 0, 0>>, <<0, 0, 1, 0>>, <<0, 0, 0, 1>> >>

zeros3 == <<0, 0, 0>>

\* np.dot of two 4x4 matrices
dot_entry(A, B, i, j) ==
    A[i][1] * B[1][j] + A[i][2] * B[2][j] + A[i][3] * B[3][j] + A[i][4] * B[4][j]

dot_row(A, B, i) ==
    <<dot_entry(A, B, i, 1), dot_entry(A, B, i, 2), dot_entry(A, B, i, 3), dot_entry(A, B, i, 4)>>

dot(A, B) == <<dot_row(A, B, 1), dot_row(A, B, 2), dot_row(A, B, 3), dot_row(A, B, 4)>>

\* np.dot of two 3x3 matrices
dot3_entry(A, B, i, j) == A[i][1] * B[1][j] + A[i][2] * B[2][j] + A[i][3] * B[3][j]

dot3_row(A, B, i) == <<dot3_entry(A, B, i, 1), dot3_entry(A, B, i, 2), dot3_entry(A, B, i, 3)>>

dot3(A, B) == <<dot3_row(A, B, 1), dot3_row(A, B, 2), dot3_row(A, B, 3)>>

\* inner product of two 3-vectors
vdot(a, b) == a[1] * b[1] + a[2] * b[2] + a[3] * b[3]

\* a 3x3 matrix applied to a 3-vector
matvec(R, v) == <<vdot(R[1], v), vdot(R[2], v), vdot(R[3], v)>>

vadd(a, b) == <<a[1] + b[1], a[2] + b[2], a[3] + b[3]>>

vsub(a, b) == <<a[1] - b[1], a[2] - b[2], a[3] - b[3]>>

vscale(c, a) == <<c * a[1], c * a[2], c * a[3]>>

\* a vector divided by a scalar; exact for the axis-aligned vectors of the model
vdiv(a, c) == <<a[1] \div c, a[2] \div c, a[3] \div c>>

\* the exact integer square root; defined only for perfect squares
isqrt(n) == CHOOSE r \in 0..n : r * r = n

\* the Euclidean norm of a 3-vector
norm(a) == isqrt(vdot(a, a))

\* column j of the upper-left 3x3 block of a 4x4 matrix
col(A, j) == <<A[1][j], A[2][j], A[3][j]>>

\* the 3x3 matrix with the given columns
fromcols(c1, c2, c3) ==
    << <<c1[1], c2[1], c3[1]>>, <<c1[2], c2[2], c3[2]>>, <<c1[3], c2[3], c3[3]>> >>

det3(M) ==
      M[1][1] * (M[2][2] * M[3][3] - M[2][3] * M[3][2])
    - M[1][2] * (M[2][1] * M[3][3] - M[2][3] * M[3][1])
    + M[1][3] * (M[2][1] * M[3][2] - M[2][2] * M[3][1])

(***************************************************************************)
(* marxs.math.utils and transforms3d.affines, as generate_elements and     *)
(* _parse_position_keywords call them.                                     *)
(***************************************************************************)
\* the 4x4 matrix with upper-left block M3 and translation column t
aff(M3, t) ==
    << <<M3[1][1], M3[1][2], M3[1][3], t[1]>>,
       <<M3[2][1], M3[2][2], M3[2][3], t[2]>>,
       <<M3[3][1], M3[3][2], M3[3][3], t[3]>>,
       <<0, 0, 0, 1>> >>

translation2aff(t) == aff(eye3, t)

zoom2aff(z) == aff(<< <<z[1], 0, 0>>, <<0, z[2], 0>>, <<0, 0, z[3]>> >>, zeros3)

mat2aff(R) == aff(R, zeros3)

\* transforms3d.affines.compose(T, R, Z, S): T . R . diag(Z) . shear(S)
compose(T, R, Z, S) ==
    LET Zm == << <<Z[1], 0, 0>>, <<0, Z[2], 0>>, <<0, 0, Z[3]>> >>
        Sm == << <<1, S[1], S[2]>>, <<0, 1, S[3]>>, <<0, 0, 1>> >>
    IN  aff(dot3(R, dot3(Zm, Sm)), T)

\* transforms3d.affines.decompose44(A): translation, rotation, zooms and
\* shears of A, by Gram-Schmidt orthogonalisation of the columns of A[:3,:3].
\* Each local operator is one group of assignments of the function; its
\* parameters are the values computed before it.
decompose44(A) ==
    LET finish(sx, sy, sz, M0, M1, M2, sxy, sxz, syz, neg) ==
            [T |-> col(A, 4),
             R |-> IF neg THEN fromcols(vscale(-1, M0), M1, M2) ELSE fromcols(M0, M1, M2),
             Z |-> <<IF neg THEN -sx ELSE sx, sy, sz>>,
             S |-> <<sxy, sxz, syz>>]
        third(sx, sy, M0, M1, sx_sxy, sx_sxz, sy_syz, M2r, sz) ==
            finish(sx, sy, sz, M0, M1, vdiv(M2r, sz),
                   sx_sxy \div sx, sx_sxz \div sx, sy_syz \div sy,
                   det3(fromcols(M0, M1, vdiv(M2r, sz))) < 0)
        shears(sx, sy, M0, M1, sx_sxy, sx_sxz, sy_syz) ==
            third(sx, sy, M0, M1, sx_sxy, sx_sxz, sy_syz,
                  vsub(col(A, 3), vadd(vscale(sx_sxz, M0), vscale(sy_syz, M1))),
                  norm(vsub(col(A, 3), vadd(vscale(sx_sxz, M0), vscale(sy_syz, M1)))))
        second(sx, M0, sx_sxy, M1r, sy) ==
            shears(sx, sy, M0, vdiv(M1r, sy), sx_sxy,
                   vdot(M0, col(A, 3)), vdot(vdiv(M1r, sy), col(A, 3)))
        first(sx, M0, sx_sxy) ==
            second(sx, M0, sx_sxy, vsub(col(A, 2), vscale(sx_sxy, M0)),
                   norm(vsub(col(A, 2), vscale(sx_sxy, M0))))
        start(sx) ==
            first(sx, vdiv(col(A, 1), sx), vdot(vdiv(col(A, 1), sx), col(A, 2)))
    IN  start(norm(col(A, 1)))

\* np.allclose(S, 0.) on the exact shears of the model
allclose0(S) == S = zeros3

(***************************************************************************)
(* Python values held in the elem_args dictionary.  A dictionary is a      *)
(* function from its keys (strings) to values; a value records whether it  *)
(* is a Python list, a tuple, or anything else (a number, an np.array).    *)
(***************************************************************************)
\* a number or an np.array: not a list, not a tuple
Value(x) == [kind |-> "value", items |-> <<x>>]

\* a Python list
List(s) == [kind |-> "list", items |-> s]

\* a Python tuple
Tuple(s) == [kind |-> "tuple", items |-> s]

\* isinstance(v, list)
isinstance_list(v) == v.kind = "list"

\* len(v) of a list or tuple
len(v) == Len(v.items)

\* v[i] of a list, i a Python index
item(v, i) == Value(v.items[i + 1])

\* d without the key k (the state of a dict after d.pop(k, default))
pop(d, k) == [x \in DOMAIN d \ {k} |-> d[x]]

\* d with d[k] = v
setitem(d, k, v) == [x \in DOMAIN d \cup {k} |-> IF x = k THEN v ELSE d[x]]

(***************************************************************************)
(* marxs.base._parse_position_keywords(kwargs): the pos4d the keywords     *)
(* define, the keywords left after the position keywords are popped, and   *)
(* whether a ValueError is raised.  is_matrix tells whether the pos4d       *)
(* returned is one 4x4 array: a list of arrays given as pos4d is returned  *)
(* as it is.                                                               *)
(***************************************************************************)
parse_position_keywords(kwargs) ==
    LET has(k)   == k \in DOMAIN kwargs
        rest     == pop(pop(pop(pop(kwargs, "pos4d"), "position"), "orientation"), "zoom")
        position == IF has("position") THEN kwargs["position"].items[1] ELSE zeros3
        orient   == IF has("orientation") THEN kwargs["orientation"].items[1] ELSE eye3
        zoomv    == IF has("zoom") THEN kwargs["zoom"] ELSE Value(1)
        \* np.isscalar(zoom)
        isscalar == zoomv.kind = "value"
        zoom     == IF isscalar THEN vscale(zoomv.items[1], <<1, 1, 1>>) ELSE zoomv.items
    IN  IF has("pos4d")
        THEN IF has("position") \/ has("orientation") \/ has("zoom")
             THEN [error |-> TRUE, is_matrix |-> FALSE, pos4d |-> eye4,
                   kwargs |-> pop(kwargs, "pos4d")]
             ELSE [error |-> FALSE, is_matrix |-> kwargs["pos4d"].kind = "value",
                   pos4d |-> kwargs["pos4d"].items[1], kwargs |-> pop(kwargs, "pos4d")]
        ELSE IF ~isscalar /\ Len(zoomv.items) # 3
             THEN [error |-> TRUE, is_matrix |-> FALSE, pos4d |-> eye4, kwargs |-> rest]
             ELSE [error |-> FALSE, is_matrix |-> TRUE,
                   pos4d |-> compose(position, orient, zoom, zeros3), kwargs |-> rest]

(***************************************************************************)
(* The element class.  elem_class(pos4d=..., id_num=..., **kwargs) takes   *)
(* the keywords it knows; MarxsElement.__init__ takes `name` and raises    *)
(* ValueError if any keyword is left.                                      *)
(***************************************************************************)
\* the keywords the element class of the model accepts besides pos4d, id_num
ElemClassKeywords == {"d", "id_col", "name"}

\* whether elem_class(**kwargs) raises
elem_class_raises(kwargs) == DOMAIN kwargs \ ElemClassKeywords # {}

\* the element instance elem_class(pos4d=f_pos4d, id_num=i, **kwargs)
elem_class(f_pos4d, i, kwargs) == [pos4d |-> f_pos4d, id_num |-> i, kwargs |-> kwargs]

(***************************************************************************)
(* Parallel.generate_elements.  `self` is the record of the attributes the *)
(* method reads: pos4d, uncertainty, elem_pos, elem_uncertainty, elem_args.*)
(***************************************************************************)
\* the attributes of an assembly that generate_elements reads
Attributes(p4, unc, epos, eunc, eargs) ==
    [pos4d |-> p4, uncertainty |-> unc, elem_pos |-> epos,
     elem_uncertainty |-> eunc, elem_args |-> eargs]

\* a resolution that also takes the entries of a tuple as long as elem_pos
\* per index
specific_elem_args_any_sequence(elem_args_, elem_pos_, i) ==
    [k \in DOMAIN elem_args_ |->
        IF elem_args_[k].kind \in {"list", "tuple"} /\ len(elem_args_[k]) = Len(elem_pos_)
        THEN item(elem_args_[k], i)
        ELSE elem_args_[k]]

\* lines 257-264: the keyword arguments of element i; a value is taken per
\* index only if it is a list as long as elem_pos
specific_elem_args(elem_args_, elem_pos_, i) ==
    [k \in DOMAIN elem_args_ |->
        IF isinstance_list(elem_args_[k]) /\ len(elem_args_[k]) = Len(elem_pos_)
        THEN item(elem_args_[k], i)
        ELSE elem_args_[k]]

\* lines 265-266: the default name 'Elem i in <name>'
with_name(kwargs, i) ==
    IF "name" \notin DOMAIN kwargs
    THEN setitem(kwargs, "name", Value(<<"Elem", i>>))
    ELSE kwargs

\* the factors with the uncertainty rotation applied before the nominal one
transform_factors_uncertainty_first(self, de, dp, ds) ==
    << self.pos4d, self.uncertainty,
       translation2aff(ds.T), translation2aff(dp.T), translation2aff(de.T),
       mat2aff(dp.R), mat2aff(ds.R), mat2aff(de.R),
       zoom2aff(ds.Z), zoom2aff(dp.Z), zoom2aff(de.Z) >>

\* the factors with the global uncertainty applied in the frame of the
\* element's uncertainty rotation
transform_factors_global_inside(self, de, dp, ds) ==
    << self.pos4d,
       translation2aff(ds.T), translation2aff(dp.T), translation2aff(de.T),
       mat2aff(ds.R), self.uncertainty, mat2aff(dp.R), mat2aff(de.R),
       zoom2aff(ds.Z), zoom2aff(dp.Z), zoom2aff(de.Z) >>

\* the factors with the global uncertainty pivoting about the element's centre
transform_factors_pivot_at_centre(self, de, dp, ds) ==
    << self.pos4d,
       translation2aff(ds.T), translation2aff(dp.T), translation2aff(de.T),
       self.uncertainty, mat2aff(ds.R), mat2aff(dp.R), mat2aff(de.R),
       zoom2aff(ds.Z), zoom2aff(dp.Z), zoom2aff(de.Z) >>

\* the factors with the nominal translation applied inside the rotation of the
\* element's uncertainty
transform_factors_centre_rotated(self, de, dp, ds) ==
    << self.pos4d, self.uncertainty,
       translation2aff(ds.T), translation2aff(de.T),
       mat2aff(ds.R), translation2aff(dp.T), mat2aff(dp.R), mat2aff(de.R),
       zoom2aff(ds.Z), zoom2aff(dp.Z), zoom2aff(de.Z) >>

\* lines 280-291: the factors of the final transform, in the order listed;
\* de, dp, ds are the decompositions of the construction pose, of elem_pos[i]
\* and of elem_uncertainty[i]
transform_factors(self, de, dp, ds) ==
    << self.pos4d,
       self.uncertainty,
       translation2aff(ds.T),
       translation2aff(dp.T),
       translation2aff(de.T),
       mat2aff(ds.R),
       mat2aff(dp.R),
       mat2aff(de.R),
       zoom2aff(ds.Z),
       zoom2aff(dp.Z),
       zoom2aff(de.Z) >>

\* lines 279-293: f_pos4d = eye(4); for m in reversed(ms): f_pos4d = dot(m, f_pos4d)
RECURSIVE fold_reversed(_, _, _)
fold_reversed(ms, k, f_pos4d) ==
    IF k = 0 THEN f_pos4d ELSE fold_reversed(ms, k - 1, dot(ms[k], f_pos4d))

\* a generate_elements that appends to the list it finds
keep_elements(old) == old

\* line 253: the list generate_elements starts from
reset_elements(old) == <<>>

\* lines 273-276: the shear generate_elements tests after decomposing elem_pos[i]
\* and elem_uncertainty[i]: both decompositions are assigned to the one name
\* stemp, and the test reads it after the second assignment
checked_stemp(stemp_pos, stemp_sig) == stemp_sig

\* lines 255-294: the loop from Python index i on; acc is self.elements so far
\* and calls the number of elem_class calls made so far.  The local operators
\* are the statements of the loop body in order, each taking the values
\* computed before it.
RECURSIVE generate_loop(_, _, _, _)
generate_loop(self, i, acc, calls) ==
    LET fail(e, c) == [elements |-> acc, result |-> e, calls |-> c]
        \* line 294
        construct(kwargs, f) ==
            IF elem_class_raises(kwargs)
            THEN fail("ValueError: elem_class", calls + 1)
            ELSE generate_loop(self, i + 1, Append(acc, elem_class(f, i, kwargs)), calls + 1)
        \* lines 279-293
        product(kwargs, ms) == construct(kwargs, fold_reversed(ms, Len(ms), eye4))
        \* lines 274-276
        uncertain(kwargs, de, dp, ds) ==
            IF ~allclose0(checked_stemp(dp.S, ds.S))
            THEN fail("SimulationSetupError: shear in uncertainty", calls)
            ELSE product(kwargs, transform_factors(self, de, dp, ds))
        \* lines 273-274
        nominal(kwargs, de, dp) ==
            IF i >= Len(self.elem_uncertainty)
            THEN fail("IndexError", calls)
            ELSE uncertain(kwargs, de, dp, decompose44(self.elem_uncertainty[i + 1]))
        \* lines 269-271
        sheared(kwargs, de) ==
            IF ~allclose0(de.S)
            THEN fail("ValueError: shear in pos4d", calls)
            ELSE nominal(kwargs, de, decompose44(self.elem_pos[i + 1]))
        \* lines 268-269; decompose44 cannot unpack a list of arrays
        parse(parsed) ==
            IF parsed.error
            THEN fail("ValueError: position keywords", calls)
            ELSE IF ~parsed.is_matrix
            THEN fail("ValueError: decompose44", calls)
            ELSE sheared(parsed.kwargs, decompose44(parsed.pos4d))
    IN  IF i >= Len(self.elem_pos)
        THEN [elements |-> acc, result |-> "ok", calls |-> calls]
        ELSE parse(parse_position_keywords(
                 with_name(specific_elem_args(self.elem_args, self.elem_pos, i), i)))

\* lines 253-294: generate_elements on an assembly whose elements were `old`
generate_elements(self, old) == generate_loop(self, 0, reset_elements(old), 0)

(***************************************************************************)
(* The values the model assigns to the attributes.                         *)
(***************************************************************************)
ones3 == <<1, 1, 1>>

\* quarter turns about the x, y and z axes
Rx == << <<1, 0, 0>>, <<0, 0, -1>>, <<0, 1, 0>> >>

Ry == << <<0, 0, 1>>, <<0, 1, 0>>, <<-1, 0, 0>> >>

Rz == << <<0, -1, 0>>, <<1, 0, 0>>, <<0, 0, 1>> >>

\* a pose with a shear component
Sheared == compose(<<1, 0, 0>>, eye3, ones3, <<1, 0, 0>>)

\* nominal poses: centres off and on the z axis, with and without rotation and zoom
PoseA == compose(<<0, 2, 0>>, eye3, ones3, zeros3)

PoseB == compose(<<0, 0, 3>>, Rz, <<1, 2, 1>>, zeros3)

\* the global placement of the assembly (pos4d of the Parallel object)
Placed == compose(<<3, 0, 0>>, Rx, ones3, zeros3)

\* global uncertainties: none, a pure translation, a pure rotation
UncSet == {eye4, translation2aff(<<0, 1, 0>>), mat2aff(Rz)}

\* nominal poses of single elements
PosSet == {PoseA, PoseB, Sheared}

\* per-element uncertainties
Wiggled == compose(<<1, 0, 0>>, Rx, <<1, 1, 2>>, zeros3)

EUncSet == {eye4, Wiggled, Sheared}

\* the id_col entry that __init__ adds to elem_args
IdCol == [id_col |-> Value("element")]

\* elem_args dictionaries
ArgsPlain == IdCol

ArgsZoom == [id_col |-> Value("element"), zoom |-> Value(2), d |-> Value(5)]

ArgsPerIndex ==
    [id_col |-> Value("element"), position |-> Value(<<0, -2, 0>>),
     orientation |-> Value(Ry), d |-> List(<<7, 8>>)]

ArgsShear == [id_col |-> Value("element"), pos4d |-> Value(Sheared)]

ArgsConflict == [id_col |-> Value("element"), pos4d |-> Value(PoseA), zoom |-> Value(2)]

ArgsTuple == [id_col |-> Value("element"), d |-> Tuple(<<7, 8>>)]

ArgsUnknown == [id_col |-> Value("element"), bogus |-> Value(1)]

ArgsShearAt1 == [id_col |-> Value("element"), pos4d |-> List(<<PoseA, Sheared>>)]

ArgsZoomList == [zoom |-> List(<<1, 2, 1>>), d |-> List(<<7>>)]

ArgsSet ==
    {ArgsPlain, ArgsZoom, ArgsPerIndex, ArgsShear, ArgsConflict, ArgsTuple,
     ArgsUnknown, ArgsShearAt1, ArgsZoomList}

\* the lists of at most MaxElems entries drawn from S
Lists(S) == UNION {[1..n -> S] : n \in 0..MaxElems}

\* the values the attribute assignments of the state machine draw from
\* the nominal layout of n elements, alternating two poses
Layout(n) == [i \in 1..n |-> IF i % 2 = 1 THEN PoseA ELSE PoseB]

PosLayouts == {Layout(n) : n \in 0..MaxElems}

EUncSmall == {eye4, Sheared}

UncSmall == {eye4, mat2aff(Rz)}

ArgsSmall == {ArgsZoom, ArgsUnknown}

(***************************************************************************)
(* State.                                                                  *)
(***************************************************************************)
VARIABLES
    pos4d,              \* Parallel.pos4d, the global placement
    uncertainty,        \* Parallel.uncertainty
    elem_pos,           \* Parallel.elem_pos
    elem_uncertainty,   \* Parallel.elem_uncertainty
    elem_args,          \* Parallel.elem_args
    elements,           \* Parallel.elements
    applied,            \* the calls of process_photons and the list it returns
    pc,                 \* "init": in __init__ before line 228; "ready": constructed;
                        \* "dead": __init__ raised, the object does not exist
    result,             \* how the last generate_elements call ended
    n_calls,            \* the elem_class calls the last generate_elements call made
    gen_inputs          \* the attributes the last generate_elements call read

\* two assemblies A and B and the objects their attributes refer to: `mats`
\* are the arrays, `lists` the lists of arrays (by position in mats), `inst`
\* the attributes of A and of B, `last_op` the assembly the last statement
\* was executed on, `executed` the number of statements executed since
\* the construction of A and B
VARIABLES mats, lists, inst, last_op, executed

\* a GratingArrayStructure under construction: its fields, the stage of
\* __init__ reached and its outcome, and the tiling it computes; the
\* arguments and the outcome of a call of xyz_from_ra
VARIABLES gas, gas_pc, gas_result, gas_radii, gas_angles, ra_in, yz_out

\* a RowlandTorus, and the arguments and the outcome of a call of normal, of
\* solve_quartic and of design_tilted_torus
VARIABLES rowland, normal_in, normal_out, solve_in, solve_out, design_in, design_out

\* a Sequence, the outcome of its construction, the position of
\* process_photons in its loops, the photon list it is holding and the
\* calls it has made
VARIABLES sq, sq_result, sq_pos, photons, calls

\* the variables of the single assembly
assembly_vars ==
    <<pos4d, uncertainty, elem_pos, elem_uncertainty, elem_args, elements, pc, result,
      n_calls, gen_inputs, applied>>

\* the variables of the two assemblies A and B
shared_vars == <<mats, lists, inst, last_op, executed>>

\* the variables of the GratingArrayStructure
gas_vars == <<gas, gas_pc, gas_result, gas_radii, gas_angles, ra_in, yz_out>>

\* the variables of the RowlandTorus
torus_vars ==
    <<rowland, normal_in, normal_out, solve_in, solve_out, design_in, design_out>>

\* the variables of the Sequence
sequence_vars == <<sq, sq_result, sq_pos, photons, calls>>

vars == <<assembly_vars, shared_vars, gas_vars, torus_vars, sequence_vars>>

\* no single assembly has been constructed
NoAssembly ==
    /\ pos4d = eye4 /\ uncertainty = eye4 /\ elem_pos = <<>> /\ elem_uncertainty = <<>>
    /\ elem_args = <<>> /\ elements = <<>> /\ pc = "none" /\ result = "none"
    /\ n_calls = 0 /\ gen_inputs = <<>> /\ applied = <<>>

\* the assemblies A and B have not been constructed
NoShared ==
    mats = <<>> /\ lists = <<>> /\ inst = <<>> /\ last_op = "none" /\ executed = 0

\* no GratingArrayStructure has been constructed
NoGas ==
    /\ gas = <<>> /\ gas_pc = "none" /\ gas_result = "none"
    /\ gas_radii = <<>> /\ gas_angles = <<>> /\ ra_in = <<>> /\ yz_out = <<>>

\* no Sequence has been constructed
NoSequence ==
    /\ sq = <<>> /\ sq_result = "none" /\ sq_pos = <<>> /\ photons = <<>> /\ calls = <<>>

\* no RowlandTorus has been constructed
NoTorus ==
    /\ rowland = <<>> /\ normal_in = <<>> /\ normal_out = <<>>
    /\ solve_in = <<>> /\ solve_out = <<>>
    /\ design_in = <<>> /\ design_out = <<>>

\* the attributes generate_elements would read now
Self == Attributes(pos4d, uncertainty, elem_pos, elem_uncertainty, elem_args)

\* lines 220-221: __init__ adds id_col to elem_args unless it is given
init_elem_args(given) ==
    IF "id_col" \notin DOMAIN given THEN setitem(given, "id_col", Value("element")) ELSE given

\* line 227: one identity per element
init_elem_uncertainty(epos) == [i \in 1..Len(epos) |-> eye4]

\* lines 194-227: Parallel.__init__ up to the generate_elements call
Init ==
    /\ pos4d = Placed
    /\ elem_args \in {init_elem_args(a) : a \in ArgsSmall}
    /\ elem_pos \in PosLayouts
    /\ uncertainty = eye4
    /\ elem_uncertainty = init_elem_uncertainty(elem_pos)
    /\ elements = <<>>
    /\ pc = "init"
    /\ result = "none"
    /\ n_calls = 0
    /\ gen_inputs = Self
    /\ applied = <<>>
    /\ NoShared /\ NoGas /\ NoTorus /\ NoSequence

\* line 228 and every later call: self.generate_elements()
Generate ==
    /\ pc \in {"init", "ready"}
    /\ \E g \in {generate_elements(Self, elements)} :
           /\ elements' = g.elements
           /\ result' = g.result
           /\ n_calls' = g.calls
           /\ pc' = IF pc = "init" /\ g.result # "ok" THEN "dead" ELSE "ready"
    /\ gen_inputs' = Self
    /\ UNCHANGED <<pos4d, uncertainty, elem_pos, elem_uncertainty, elem_args, applied>>
    /\ UNCHANGED <<shared_vars, gas_vars, torus_vars, sequence_vars>>

\* an assignment of uncertainty that regenerates the elements at once
SetUncertaintyRegenerates(u) ==
    /\ pc = "ready"
    /\ uncertainty' = u
    /\ \E g \in {generate_elements(Attributes(pos4d, u, elem_pos, elem_uncertainty,
                                              elem_args), elements)} :
           /\ elements' = g.elements
           /\ result' = g.result
           /\ n_calls' = g.calls
    /\ gen_inputs' = Attributes(pos4d, u, elem_pos, elem_uncertainty, elem_args)
    /\ UNCHANGED <<pos4d, elem_pos, elem_uncertainty, elem_args, pc, applied>>
    /\ UNCHANGED <<shared_vars, gas_vars, torus_vars, sequence_vars>>

\* assembly.uncertainty = u
SetUncertainty(u) ==
    /\ pc = "ready"
    /\ uncertainty' = u
    /\ UNCHANGED <<pos4d, elem_pos, elem_uncertainty, elem_args, elements,
                   pc, result, n_calls, gen_inputs, applied>>
    /\ UNCHANGED <<shared_vars, gas_vars, torus_vars, sequence_vars>>

\* assembly.elem_pos = p
SetElemPos(p) ==
    /\ pc = "ready"
    /\ elem_pos' = p
    /\ UNCHANGED <<pos4d, uncertainty, elem_uncertainty, elem_args, elements,
                   pc, result, n_calls, gen_inputs, applied>>
    /\ UNCHANGED <<shared_vars, gas_vars, torus_vars, sequence_vars>>

\* assembly.elem_uncertainty = u
SetElemUncertainty(u) ==
    /\ pc = "ready"
    /\ elem_uncertainty' = u
    /\ UNCHANGED <<pos4d, uncertainty, elem_pos, elem_args, elements,
                   pc, result, n_calls, gen_inputs, applied>>
    /\ UNCHANGED <<shared_vars, gas_vars, torus_vars, sequence_vars>>

\* assembly.elem_args = a
SetElemArgs(a) ==
    /\ pc = "ready"
    /\ elem_args' = a
    /\ UNCHANGED <<pos4d, uncertainty, elem_pos, elem_uncertainty, elements,
                   pc, result, n_calls, gen_inputs, applied>>
    /\ UNCHANGED <<shared_vars, gas_vars, torus_vars, sequence_vars>>

\* the elements are applied from the last to the first
RECURSIVE process_photons_reversed(_, _, _)
process_photons_reversed(es, k, ph) ==
    IF k > Len(es) THEN [calls |-> <<>>, photons |-> ph]
    ELSE LET e == es[Len(es) + 1 - k]
             rest == process_photons_reversed(es, k + 1, Append(ph, e.id_num))
         IN  [calls |-> <<[elem |-> e, photons |-> ph]>> \o rest.calls,
              photons |-> rest.photons]

\* lines 298-301: Parallel.process_photons from element k of es on, holding
\* the photon list ph; every call with the list it is given, and the list
\* returned.  An element marks the photons it processes with its id_num: a
\* photon list is the sequence of the ids of the elements it has been through
RECURSIVE process_photons(_, _, _)
process_photons(es, k, ph) ==
    IF k > Len(es) THEN [calls |-> <<>>, photons |-> ph]
    ELSE LET e == es[k]
             rest == process_photons(es, k + 1, Append(ph, e.id_num))
         IN  [calls |-> <<[elem |-> e, photons |-> ph]>> \o rest.calls,
              photons |-> rest.photons]

\* assembly.process_photons(photons), the last call made on the assembly
ParallelProcessPhotons ==
    /\ pc = "ready"
    /\ applied' = process_photons(elements, 1, <<>>)
    /\ pc' = "processed"
    /\ UNCHANGED <<pos4d, uncertainty, elem_pos, elem_uncertainty, elem_args, elements,
                   result, n_calls, gen_inputs>>
    /\ UNCHANGED <<shared_vars, gas_vars, torus_vars, sequence_vars>>

Next ==
    \/ Generate
    \/ ParallelProcessPhotons
    \/ \E u \in UncSmall : SetUncertainty(u)
    \/ \E p \in PosLayouts : SetElemPos(p)
    \/ \E u \in Lists(EUncSmall) : SetElemUncertainty(u)
    \/ \E a \in ArgsSmall : SetElemArgs(a)

Spec == Init /\ [][Next]_vars

(***************************************************************************)
(* generate_elements as a function of its inputs: an assembly constructed  *)
(* with no elements, whose attributes have then been assigned any values,  *)
(* and on which generate_elements is called.                               *)
(***************************************************************************)
InitGen ==
    /\ pos4d = Placed
    /\ uncertainty \in UncSet
    /\ elem_pos \in Lists(PosSet)
    /\ elem_uncertainty \in Lists(EUncSet)
    /\ elem_args \in ArgsSet
    /\ elements = <<>>
    /\ pc = "ready"
    /\ result = "ok"
    /\ n_calls = 0
    /\ gen_inputs = Attributes(pos4d, eye4, <<>>, <<>>, IdCol)
    /\ applied = <<>>
    /\ NoShared /\ NoGas /\ NoTorus /\ NoSequence

NextGen == Generate

SpecGen == InitGen /\ [][NextGen]_vars

(***************************************************************************)
(* Two assemblies A and B of the class Parallel, with the identity of the  *)
(* objects their attributes hold.  An attribute holds a reference: a       *)
(* position in `mats` for an array, a position in `lists` for a list of    *)
(* arrays.  Assignment binds an attribute or a list entry to a new object; *)
(* modification in place changes the object every reference to it sees.    *)
(***************************************************************************)
\* line 178: the class attribute Parallel.uncertainty is the first array
ClassUncertainty == 1

\* the most statements executed on A and B after their construction
MaxStatements == 3

\* the names of the two assemblies
Assemblies == {"A", "B"}

\* the arrays assigned or written into an attribute
AssignedMats == {eye4, translation2aff(<<0, 1, 0>>)}

\* attribute lookup of x.uncertainty: the instance attribute if an assignment
\* has created one, the class attribute of line 178 otherwise
uncertainty_ref(x) ==
    IF inst[x].uncertainty = 0 THEN ClassUncertainty ELSE inst[x].uncertainty

\* the arrays a list refers to
list_values(l) == [i \in 1..Len(lists[l]) |-> mats[lists[l][i]]]

\* the values of the attributes x.generate_elements() reads
Inputs(x) ==
    Attributes(inst[x].pos4d, mats[uncertainty_ref(x)], list_values(inst[x].elem_pos),
               list_values(inst[x].elem_uncertainty), inst[x].elem_args)

\* the arrays and lists after A and B have been constructed with n nominal
\* poses each: the class attribute; the arrays of the list(s) passed as
\* elem_pos; for each assembly the one np.eye(4) of line 227
constructed_mats(n, same_list) ==
    <<eye4>> \o Layout(n) \o (IF same_list THEN <<>> ELSE Layout(n)) \o <<eye4, eye4>>

\* line 216 keeps the list passed as elem_pos; line 227 builds a list of n
\* references to one array
constructed_lists(n, same_list) ==
    << [i \in 1..n |-> 1 + i],
       [i \in 1..n |-> IF same_list THEN 1 + i ELSE 1 + n + i],
       [i \in 1..n |-> IF same_list THEN n + 2 ELSE 2 * n + 2],
       [i \in 1..n |-> IF same_list THEN n + 3 ELSE 2 * n + 3] >>

\* lines 194-228 for A and for B: no instance attribute `uncertainty` is
\* created; elem_args is a copy; elements are generated
constructed(x, n) ==
    [pos4d |-> Placed,
     uncertainty |-> 0,
     elem_pos |-> IF x = "A" THEN 1 ELSE 2,
     elem_uncertainty |-> IF x = "A" THEN 3 ELSE 4,
     elem_args |-> init_elem_args(ArgsZoom),
     elements |-> generate_elements(
                      Attributes(Placed, eye4, Layout(n), [i \in 1..n |-> eye4],
                                 init_elem_args(ArgsZoom)), <<>>).elements,
     result |-> "ok"]

\* A = Parallel(elem_pos=p, ...); B = Parallel(elem_pos=q, ...), where q is
\* the list p itself or another list of other arrays
InitShared ==
    /\ \E n \in 1..MaxElems, same_list \in BOOLEAN :
           /\ mats = constructed_mats(n, same_list)
           /\ lists = constructed_lists(n, same_list)
           /\ inst = [x \in Assemblies |-> constructed(x, n)]
    /\ last_op = "B"
    /\ executed = 0
    /\ NoAssembly /\ NoGas /\ NoTorus /\ NoSequence

\* one more statement is executed, on x
Execute(x) ==
    /\ executed < MaxStatements
    /\ executed' = executed + 1
    /\ last_op' = x

\* x.uncertainty = M: binds the instance attribute to a new array
AssignUncertainty(x, M) ==
    /\ Execute(x)
    /\ mats' = Append(mats, M)
    /\ inst' = [inst EXCEPT ![x].uncertainty = Len(mats) + 1]
    /\ UNCHANGED <<lists, assembly_vars, gas_vars, torus_vars, sequence_vars>>

\* x.uncertainty[:] = M: writes into the array x.uncertainty refers to
ModifyUncertainty(x, M) ==
    /\ Execute(x)
    /\ mats' = [mats EXCEPT ![uncertainty_ref(x)] = M]
    /\ UNCHANGED <<lists, inst, assembly_vars, gas_vars, torus_vars, sequence_vars>>

\* x.elem_pos[i] = M: binds entry i of the list x.elem_pos refers to
AssignElemPosItem(x, i, M) ==
    /\ Execute(x)
    /\ i \in 1..Len(lists[inst[x].elem_pos])
    /\ mats' = Append(mats, M)
    /\ lists' = [lists EXCEPT ![inst[x].elem_pos][i] = Len(mats) + 1]
    /\ UNCHANGED <<inst, assembly_vars, gas_vars, torus_vars, sequence_vars>>

\* x.elem_uncertainty[i] = M: binds entry i of the list of line 227
AssignElemUncertaintyItem(x, i, M) ==
    /\ Execute(x)
    /\ i \in 1..Len(lists[inst[x].elem_uncertainty])
    /\ mats' = Append(mats, M)
    /\ lists' = [lists EXCEPT ![inst[x].elem_uncertainty][i] = Len(mats) + 1]
    /\ UNCHANGED <<inst, assembly_vars, gas_vars, torus_vars, sequence_vars>>

\* x.elem_uncertainty[i][:] = M: writes into the array entry i refers to
ModifyElemUncertaintyItem(x, i, M) ==
    /\ Execute(x)
    /\ i \in 1..Len(lists[inst[x].elem_uncertainty])
    /\ mats' = [mats EXCEPT ![lists[inst[x].elem_uncertainty][i]] = M]
    /\ UNCHANGED <<lists, inst, assembly_vars, gas_vars, torus_vars, sequence_vars>>

\* x.elem_args[k] = v, on the copy of line 198
AssignElemArg(x, k, v) ==
    /\ Execute(x)
    /\ inst' = [inst EXCEPT ![x].elem_args = setitem(inst[x].elem_args, k, v)]
    /\ UNCHANGED <<mats, lists, assembly_vars, gas_vars, torus_vars, sequence_vars>>

\* x.generate_elements(): lines 240-294 on the values x's attributes refer to
GenerateOn(x) ==
    /\ Execute(x)
    /\ \E g \in {generate_elements(Inputs(x), inst[x].elements)} :
           inst' = [inst EXCEPT ![x].elements = g.elements, ![x].result = g.result]
    /\ UNCHANGED <<mats, lists, assembly_vars, gas_vars, torus_vars, sequence_vars>>

NextShared ==
    \E x \in Assemblies :
        \/ \E M \in AssignedMats : AssignUncertainty(x, M)
        \/ \E M \in AssignedMats : ModifyUncertainty(x, M)
        \/ \E i \in 1..MaxElems, M \in AssignedMats : AssignElemPosItem(x, i, M)
        \/ \E i \in 1..MaxElems, M \in AssignedMats : AssignElemUncertaintyItem(x, i, M)
        \/ \E i \in 1..MaxElems, M \in AssignedMats : ModifyElemUncertaintyItem(x, i, M)
        \/ AssignElemArg(x, "d", Value(6))
        \/ GenerateOn(x)

SpecShared == InitShared /\ [][NextShared]_vars

(***************************************************************************)
(* Rational arithmetic for the floats of marxs.design.rowland.  A number   *)
(* is a pair <<numerator, denominator>> in lowest terms with a positive    *)
(* denominator.  np.pi is itself a rational number (a double); the model   *)
(* computes with the rational 22/7 in its place, and every operation below *)
(* is exact, so rounding is not represented.                               *)
(***************************************************************************)
RECURSIVE gcd(_, _)
gcd(a, b) == IF b = 0 THEN a ELSE gcd(b, a % b)

\* the absolute value of an integer
iabs(a) == IF a < 0 THEN -a ELSE a

\* the number n / d, d # 0
frac(n, d) ==
    << (IF d < 0 THEN -n ELSE n) \div gcd(iabs(n), iabs(d)),
       iabs(d) \div gcd(iabs(n), iabs(d)) >>

\* the integer n as a number
whole(n) == <<n, 1>>

\* the sum, over the least common denominator
qadd(a, b) ==
    frac(a[1] * (b[2] \div gcd(a[2], b[2])) + b[1] * (a[2] \div gcd(a[2], b[2])),
         a[2] * (b[2] \div gcd(a[2], b[2])))

qneg(a) == <<-a[1], a[2]>>

qsub(a, b) == qadd(a, qneg(b))

\* the product, with the common factors cancelled before multiplying
qmul(a, b) ==
    frac((a[1] \div gcd(iabs(a[1]), b[2])) * (b[1] \div gcd(iabs(b[1]), a[2])),
         (a[2] \div gcd(iabs(b[1]), a[2])) * (b[2] \div gcd(iabs(a[1]), b[2])))

\* a / b, b # 0
qdiv(a, b) == qmul(a, frac(b[2], b[1]))

qlt(a, b) == qsub(a, b)[1] < 0

qle(a, b) == qsub(a, b)[1] <= 0

\* np.abs
qabs(a) == <<iabs(a[1]), a[2]>>

\* the largest integer not above a
qfloor(a) == a[1] \div a[2]

\* np.ceil: the least integer not below a
qceil(a) == -((-a[1]) \div a[2])

\* a // b for b > 0: floor division of floats
qfloordiv(a, b) == qfloor(qdiv(a, b))

\* a % m for m > 0: the float remainder, in [0, m)
qmod(a, m) == qsub(a, qmul(whole(qfloordiv(a, m)), m))

\* np.pi
Pi == frac(22, 7)

\* 2. * np.pi
TwoPi == qmul(whole(2), Pi)

(***************************************************************************)
(* GratingArrayStructure: the checks of __init__ and the tiling of an      *)
(* annulus segment by calculate_elempos.  `g` is the record of the fields  *)
(* radius, phi and d_facet.  The position of a facet on the torus          *)
(* (xyz_from_ra, a numerical root search) is not represented: a nominal    *)
(* pose is identified by its ring radius and its angle.                    *)
(***************************************************************************)
\* the checks with the angles compared without np.abs
gas_init_checks_signed(g) ==
    IF ~qlt(g.radius[1], g.radius[2])
    THEN "ValueError: Outer radius must be larger than inner radius."
    ELSE IF qlt(g.radius[1], whole(0)) \/ qlt(g.radius[2], whole(0))
    THEN "ValueError: Radius must be positive."
    ELSE IF qlt(whole(10), g.phi[1]) \/ qlt(whole(10), g.phi[2])
    THEN "ValueError: Input angles >> 2 pi."
    ELSE "ok"

\* lines 283-290: the checks of __init__, in order
gas_init_checks(g) ==
    IF ~qlt(g.radius[1], g.radius[2])
    THEN "ValueError: Outer radius must be larger than inner radius."
    ELSE IF qlt(g.radius[1], whole(0)) \/ qlt(g.radius[2], whole(0))
    THEN "ValueError: Radius must be positive."
    ELSE IF qlt(whole(10), qabs(g.phi[1])) \/ qlt(whole(10), qabs(g.phi[2]))
    THEN "ValueError: Input angles >> 2 pi."
    ELSE "ok"

\* lines 304-310: GratingArrayStructure.anglediff
anglediff(g) ==
    IF qlt(qsub(g.phi[2], g.phi[1]), whole(0)) \/ qlt(TwoPi, qsub(g.phi[2], g.phi[1]))
    THEN qmod(qsub(g.phi[2], g.phi[1]), TwoPi)
    ELSE qsub(g.phi[2], g.phi[1])

\* line 299: the anglediff of calc_ideal_center
ideal_center_anglediff(g) == qmod(qsub(g.phi[2], g.phi[1]), TwoPi)

\* lines 299-301: the angle and the radius calc_ideal_center passes to xyz_from_ra
calc_ideal_center(g) ==
    [a |-> qmod(qadd(g.phi[1], qdiv(ideal_center_anglediff(g), whole(2))), TwoPi),
     r |-> qdiv(qadd(g.radius[1], g.radius[2]), whole(2))]

\* line 320: GratingArrayStructure.max_facets_on_arc
max_facets_on_arc(g, radius) == qfloordiv(qmul(radius, anglediff(g)), g.d_facet)

\* the facets counted on the circle through the facet centres
counting_radius_centre(g, radius) == radius

\* line 344: the radius at which distribute_facets_on_arc counts the facets
counting_radius(g, radius) == qsub(radius, qdiv(g.d_facet, whole(2)))

\* line 345: facet_angle
facet_angle(g, radius) == qdiv(g.d_facet, qmul(TwoPi, radius))

\* line 347: d_between
d_between(g, radius, n) ==
    qdiv(qsub(anglediff(g), qmul(whole(n), facet_angle(g, radius))), whole(n + 1))

\* the centres counted from np.arange(1, n + 1)
centerangles_from_one(n, between, facet) ==
    [k \in 1..n |->
        qadd(qadd(between, qdiv(facet, whole(2))), qmul(whole(k), qadd(between, facet)))]

\* line 348: centerangles, entry k for np.arange(n)[k - 1] = k - 1
centerangles(n, between, facet) ==
    [k \in 1..n |->
        qadd(qadd(between, qdiv(facet, whole(2))), qmul(whole(k - 1), qadd(between, facet)))]

\* lines 343-349: GratingArrayStructure.distribute_facets_on_arc.  np.arange(n)
\* is empty for n <= 0, and so is the result, whatever d_between and
\* facet_angle are (a division by zero of numpy floats gives inf or nan)
distribute_facets_on_arc(g, radius) ==
    LET angles(n) ==
            IF n <= 0 THEN <<>>
            ELSE [k \in 1..n |->
                     qmod(qadd(g.phi[1],
                               centerangles(n, d_between(g, radius, n),
                                            facet_angle(g, radius))[k]), TwoPi)]
    IN angles(max_facets_on_arc(g, counting_radius(g, radius)))

\* the number of rings when the quotient is rounded down
max_facets_on_radius_floor(g) ==
    qfloor(qdiv(qsub(g.radius[2], g.radius[1]), g.d_facet))

\* line 361: GratingArrayStructure.max_facets_on_radius
max_facets_on_radius(g) == qceil(qdiv(qsub(g.radius[2], g.radius[1]), g.d_facet))

\* line 377: np.arange(- n / 2 + 0.5, n / 2 + 0.5), entry k
arange_centred(n) == [k \in 1..n |-> qadd(qadd(frac(-n, 2), frac(1, 2)), whole(k - 1))]

\* lines 376-377: GratingArrayStructure.distribute_facets_on_radius
distribute_facets_on_radius(g) ==
    [k \in 1..max_facets_on_radius(g) |->
        qadd(qdiv(qadd(g.radius[1], g.radius[2]), whole(2)),
             qmul(arange_centred(max_facets_on_radius(g))[k], g.d_facet))]

\* the radius bounds the model constructs a GratingArrayStructure with
RadiusSet == {frac(-1, 1), whole(0), frac(1, 2), whole(1), whole(2), whole(3)}

\* the facet sizes
DFacetSet == {frac(1, 2), frac(4, 5)}

\* the bounding angles: multiples of pi/2, radians that are not, and degrees
PhiSet == {whole(0), whole(3), qdiv(Pi, whole(2)), Pi, TwoPi, frac(-11, 7), whole(11), whole(-11)}

\* GratingArrayStructure(rowland, d_facet, x_range, radius, phi) is called
InitGas ==
    /\ gas \in [radius : RadiusSet \X RadiusSet, phi : PhiSet \X PhiSet, d_facet : DFacetSet]
    /\ gas_pc = "new"
    /\ gas_result = "none"
    /\ gas_radii = <<>>
    /\ gas_angles = <<>>
    /\ ra_in = <<>> /\ yz_out = <<>>
    /\ NoAssembly /\ NoShared /\ NoTorus /\ NoSequence

\* lines 281-294: __init__ up to the call of Parallel.__init__
GasInit ==
    /\ gas_pc = "new"
    /\ gas_result' = gas_init_checks(gas)
    /\ gas_pc' = IF gas_init_checks(gas) = "ok" THEN "checked" ELSE "failed"
    /\ UNCHANGED <<gas, gas_radii, gas_angles, ra_in, yz_out, assembly_vars, shared_vars, torus_vars, sequence_vars>>

\* line 401 (called from Parallel.__init__, simulator.py 224): the ring radii
DistributeOnRadius ==
    /\ gas_pc = "checked"
    /\ gas_radii' = distribute_facets_on_radius(gas)
    /\ gas_pc' = "radii"
    /\ UNCHANGED <<gas, gas_result, gas_angles, ra_in, yz_out, assembly_vars, shared_vars, torus_vars, sequence_vars>>

\* lines 402-403: the angles of the facets on the next ring
DistributeOnArc ==
    /\ gas_pc = "radii"
    /\ Len(gas_angles) < Len(gas_radii)
    /\ gas_angles' =
           Append(gas_angles, distribute_facets_on_arc(gas, gas_radii[Len(gas_angles) + 1]))
    /\ gas_pc' = IF Len(gas_angles) + 1 = Len(gas_radii) THEN "placed" ELSE "radii"
    /\ UNCHANGED <<gas, gas_result, gas_radii, ra_in, yz_out, assembly_vars, shared_vars, torus_vars, sequence_vars>>

\* np.sin(angle) for the angle of k quarter turns, k * np.pi / 2
sin_quarter(k) == <<0, 1, 0, -1>>[(k % 4) + 1]

\* np.cos(angle) for the angle of k quarter turns
cos_quarter(k) == <<1, 0, -1, 0>>[(k % 4) + 1]

\* lines 385-386: y and z of xyz_from_ra(radius, angle) for an angle of k
\* quarter turns; x, which line 387 gets from rowland.solve_quartic, is not
\* represented
xyz_from_ra(radius, k) ==
    [y |-> qmul(radius, whole(sin_quarter(k))), z |-> qmul(radius, whole(cos_quarter(k)))]

\* the numbers of quarter turns
QuarterTurns == 0..4

\* xyz_from_ra(radius, angle) for the radius of a ring of the placed tiler
XyzFromRa(i, k) ==
    /\ gas_pc = "placed" /\ ra_in = <<>>
    /\ i \in 1..Len(gas_radii)
    /\ ra_in' = [radius |-> gas_radii[i], quarter_turns |-> k]
    /\ yz_out' = xyz_from_ra(gas_radii[i], k)
    /\ UNCHANGED <<gas, gas_pc, gas_result, gas_radii, gas_angles, assembly_vars, shared_vars,
                   torus_vars, sequence_vars>>

NextGas ==
    \/ GasInit
    \/ DistributeOnRadius
    \/ DistributeOnArc
    \/ \E i \in 1..Len(gas_radii), k \in QuarterTurns : XyzFromRa(i, k)

SpecGas == InitGas /\ [][NextGas]_vars

(***************************************************************************)
(* RowlandTorus: construction and the gradient vector field.  Coordinates  *)
(* are integers; the points passed to normal are images of integer points  *)
(* of the local frame, for which the inverse transform is exact.  The      *)
(* methods do not change the torus: a behaviour is one construction        *)
(* followed by one call, of which the state keeps arguments and outcome,   *)
(* or one call of design_tilted_torus.                                     *)
(***************************************************************************)
\* marxs.math.pluecker.e2h: the homogeneous coordinates of v with weight w
e2h(v, w) == <<v[1], v[2], v[3], w>>

\* marxs.math.pluecker.h2e: a direction (weight 0) keeps its components, a
\* point is divided by its weight
h2e(h) == IF h[4] = 0 THEN <<h[1], h[2], h[3]>> ELSE vdiv(<<h[1], h[2], h[3]>>, h[4])

\* np.einsum('...ij,...j', M, h) for one vector h
einsum_ij_j(M, h) ==
    <<M[1][1] * h[1] + M[1][2] * h[2] + M[1][3] * h[3] + M[1][4] * h[4],
      M[2][1] * h[1] + M[2][2] * h[2] + M[2][3] * h[3] + M[2][4] * h[4],
      M[3][1] * h[1] + M[3][2] * h[2] + M[3][3] * h[3] + M[3][4] * h[4],
      M[4][1] * h[1] + M[4][2] * h[2] + M[4][3] * h[3] + M[4][4] * h[4]>>

\* the adjugate of the upper left 3x3 block of M
adj3(M) ==
    << <<M[2][2] * M[3][3] - M[2][3] * M[3][2], M[1][3] * M[3][2] - M[1][2] * M[3][3],
         M[1][2] * M[2][3] - M[1][3] * M[2][2]>>,
       <<M[2][3] * M[3][1] - M[2][1] * M[3][3], M[1][1] * M[3][3] - M[1][3] * M[3][1],
         M[1][3] * M[2][1] - M[1][1] * M[2][3]>>,
       <<M[2][1] * M[3][2] - M[2][2] * M[3][1], M[1][2] * M[3][1] - M[1][1] * M[3][2],
         M[1][1] * M[2][2] - M[1][2] * M[2][1]>> >>

\* lines 159-160: h2e(einsum(np.linalg.inv(pos4d), e2h(xyz, 1))) for an affine
\* pos4d with an invertible linear part: adj(L) (xyz - t) / det(L)
to_local(M, xyz) == vdiv(matvec(adj3(M), vsub(xyz, col(M, 4))), det3(M))

\* line 93: RowlandTorus.quartic(xyz, transform=False)
quartic(t, xyz) ==
    (vdot(xyz, xyz) + t.R * t.R - t.r * t.r) * (vdot(xyz, xyz) + t.R * t.R - t.r * t.r)
        - 4 * t.R * t.R * (xyz[1] * xyz[1] + xyz[2] * xyz[2])

\* line 164: factor
gradient_factor(t, xyz) == 4 * (vdot(xyz, xyz) + t.R * t.R - t.r * t.r)

\* lines 165-168: the gradient in the local frame
local_gradient(t, xyz) ==
    <<gradient_factor(t, xyz) * xyz[1] - 8 * t.R * t.R * xyz[1],
      gradient_factor(t, xyz) * xyz[2] - 8 * t.R * t.R * xyz[2],
      gradient_factor(t, xyz) * xyz[3]>>

\* line 169: h2e(einsum(pos4d, e2h(gradient, 0)))
to_global(t, gradient) == h2e(einsum_ij_j(t.pos4d, e2h(gradient, 0)))

\* lines 159-169: RowlandTorus.normal: the exception raised, if any, and the
\* gradient returned.  quartic / R**4. is inf or nan for R = 0, which
\* np.allclose does not accept
normal(t, xyz) ==
    IF t.R = 0 \/ quartic(t, to_local(t.pos4d, xyz)) # 0
    THEN [error |-> "ValueError", gradient |-> <<>>]
    ELSE [error |-> "none",
          gradient |-> to_global(t, local_gradient(t, to_local(t.pos4d, xyz)))]

\* normal for an array of points with the test applied to the first point only
normal_first_checked(t, xyzs) ==
    IF t.R = 0 \/ quartic(t, to_local(t.pos4d, xyzs[1])) # 0
    THEN [error |-> "ValueError", gradients |-> <<>>]
    ELSE [error |-> "none",
          gradients |-> [i \in 1..Len(xyzs) |->
                            to_global(t, local_gradient(t, to_local(t.pos4d, xyzs[i])))]]

\* lines 159-169: RowlandTorus.normal for xyz of shape (N, 3): np.allclose
\* takes all N quotients quartic / R**4. at once
normal_all(t, xyzs) ==
    IF t.R = 0 \/ \E i \in 1..Len(xyzs) : quartic(t, to_local(t.pos4d, xyzs[i])) # 0
    THEN [error |-> "ValueError", gradients |-> <<>>]
    ELSE [error |-> "none",
          gradients |-> [i \in 1..Len(xyzs) |->
                            to_global(t, local_gradient(t, to_local(t.pos4d, xyzs[i])))]]

\* the quartic of the point taken as it is given, without the transform
quartic_untransformed(t, xyz) == quartic(t, xyz)

\* lines 90-93: RowlandTorus.quartic(xyz) with transform=True, multiplied by
\* det(L)^4 > 0 (L the linear part of pos4d) so that it stays an integer for
\* every integer xyz; its sign and its zeros are those of the quartic
quartic_global(t, xyz) ==
    LET scaled(n, dd) ==
            (vdot(n, n) + (t.R * t.R - t.r * t.r) * dd) * (vdot(n, n) + (t.R * t.R - t.r * t.r) * dd)
                - 4 * t.R * t.R * dd * (n[1] * n[1] + n[2] * n[2])
    IN  scaled(matvec(adj3(t.pos4d), vsub(xyz, col(t.pos4d, 4))),
               det3(t.pos4d) * det3(t.pos4d))

\* a coordinate given as a number, and a coordinate given as None
Given(v) == <<FALSE, v>>

None == <<TRUE, 0>>

\* lines 120-124: the indices of the coordinates that are None
Nones(coords) == {i \in 1..3 : coords[i][1]}

\* lines 125-133: xyz with the coordinate ind set to val_in
completed(coords, ind, val_in) ==
    [i \in 1..3 |-> IF i = ind THEN val_in ELSE coords[i][2]]

\* scipy.optimize.brentq(f, a, b, full_output=True), a <= b, for a function
\* whose real zeros in [a, b] are integers: the outcomes it can have.  It
\* raises ValueError when f(a) and f(b) have the same sign and RuntimeError
\* when it has not converged after maxiter iterations (disp=True); otherwise
\* it returns a zero of f in [a, b].  f is given by its values on the
\* integers from a to b
brentq(f, a, b) ==
    IF (f[a] > 0 /\ f[b] > 0) \/ (f[a] < 0 /\ f[b] < 0)
    THEN {[raised |-> "ValueError", converged |-> FALSE, root |-> a]}
    ELSE {[raised |-> "none", converged |-> TRUE, root |-> v] : v \in {w \in a..b : f[w] = 0}}
             \cup {[raised |-> "RuntimeError", converged |-> FALSE, root |-> a]}

\* lines 119-139: RowlandTorus.solve_quartic: the outcomes of a call
solve_quartic(t, coords, interval) ==
    IF Cardinality(Nones(coords)) # 1
    THEN {[error |-> "ValueError", val_out |-> 0]}
    ELSE LET ind == CHOOSE i \in 1..3 : coords[i][1]
         IN  {IF o.raised # "none" THEN [error |-> o.raised, val_out |-> 0]
              ELSE IF ~o.converged THEN [error |-> "Exception", val_out |-> 0]
              ELSE [error |-> "none", val_out |-> o.root] :
                  o \in brentq([v \in (interval[1]..interval[2]) \cup {interval[1], interval[2]}
                                   |-> quartic_global(t, completed(coords, ind, v))],
                               interval[1], interval[2])}

\* the sign of alpha alone
sign_alone(alpha) == IF alpha > 0 THEN 1 ELSE IF alpha < 0 THEN -1 ELSE 0

\* lines 61-65: RowlandTorus.__init__ with position keywords that parse
RowlandTorus(R, r, kwargs) ==
    [R |-> R, r |-> r, pos4d |-> parse_position_keywords(kwargs).pos4d]

\* the radii R the model constructs a torus with
TorusR == {-2, 0, 2, 4}

\* the radii r
Torus_r == {-1, 0, 1}

\* the position keywords: none, a translation, a rotation, both, a uniform
\* zoom, a rotation with a zoom per axis
TorusKwargs ==
    {[k \in {} |-> Value(0)],
     [position |-> Value(<<3, 0, -3>>)],
     [orientation |-> Value(Rz)],
     [position |-> Value(<<1, 2, 0>>), orientation |-> Value(Rx)],
     [zoom |-> Value(2)],
     [orientation |-> Value(Rz), zoom |-> List(<<1, 2, 1>>)]}

\* points of the local frame, on and off the tori of the model
LocalPoints ==
    {<<3, 0, 0>>, <<1, 0, 0>>, <<0, -1, 0>>, <<2, 0, 1>>, <<3, 4, 0>>, <<0, 5, 0>>,
     <<4, 0, -1>>, <<0, 0, 0>>}

\* no torus has been constructed
InitTorus == NoTorus /\ NoAssembly /\ NoShared /\ NoGas /\ NoSequence

\* RowlandTorus(R, r, **kwargs)
NewRowlandTorus(R, r, kwargs) ==
    /\ rowland = <<>> /\ design_in = <<>>
    /\ rowland' = RowlandTorus(R, r, kwargs)
    /\ UNCHANGED <<normal_in, normal_out, solve_in, solve_out, design_in, design_out,
                   assembly_vars, shared_vars, gas_vars,
                   sequence_vars>>

\* rowland.normal(xyz) for the image xyz of the local point p
Normal(p) ==
    /\ rowland # <<>> /\ normal_in = <<>> /\ solve_in = <<>>
    /\ \E xyz \in {h2e(einsum_ij_j(rowland.pos4d, e2h(p, 1)))} :
           /\ normal_in' = [point |-> p, xyz |-> xyz]
           /\ normal_out' = normal(rowland, xyz)
    /\ UNCHANGED <<rowland, solve_in, solve_out, design_in, design_out,
                   assembly_vars, shared_vars, gas_vars,
                   sequence_vars>>

\* rowland.normal(xyz) for the images xyz of the N local points ps
NormalBatch(ps) ==
    /\ rowland # <<>> /\ normal_in = <<>> /\ solve_in = <<>>
    /\ \E xyzs \in {[i \in 1..Len(ps) |-> h2e(einsum_ij_j(rowland.pos4d, e2h(ps[i], 1)))]} :
           /\ normal_in' = [points |-> ps, xyzs |-> xyzs]
           /\ normal_out' = normal_all(rowland, xyzs)
    /\ UNCHANGED <<rowland, solve_in, solve_out, design_in, design_out,
                   assembly_vars, shared_vars, gas_vars,
                   sequence_vars>>

\* lines of the local frame, each a point and the axis along it, on which
\* every real zero of the quartic of every torus of the model is an integer
LocalLines ==
    {[point |-> <<0, 0, 0>>, axis |-> 1], [point |-> <<0, 0, 0>>, axis |-> 2],
     [point |-> <<2, 0, 0>>, axis |-> 3], [point |-> <<0, 4, 0>>, axis |-> 3],
     [point |-> <<0, 0, 0>>, axis |-> 3]}

\* the ends of the search intervals
IntervalEnds == {-6, -2, 0, 2, 4, 7, 11}

\* the index of the global axis along the image of the local axis k
global_axis(M, k) == CHOOSE i \in 1..3 : M[i][k] # 0

\* rowland.solve_quartic(x, y, z, interval) on the image of the local line
\* l, with the coordinate along the line, and the coordinate `also` if it is
\* not 0, given as None
SolveQuartic(l, also, a, b) ==
    /\ rowland # <<>> /\ normal_in = <<>> /\ solve_in = <<>>
    /\ a < b
    /\ \E base \in {h2e(einsum_ij_j(rowland.pos4d, e2h(l.point, 1)))},
          ind \in {global_axis(rowland.pos4d, l.axis)} :
           \E coords \in {[i \in 1..3 |-> IF i \in {ind, also} THEN None ELSE Given(base[i])]} :
               /\ solve_in' = [line |-> l, coords |-> coords, interval |-> <<a, b>>]
               /\ solve_out' \in solve_quartic(rowland, coords, <<a, b>>)
    /\ UNCHANGED <<rowland, normal_in, normal_out, design_in, design_out,
                   assembly_vars, shared_vars, gas_vars,
                   sequence_vars>>

(***************************************************************************)
(* design_tilted_torus, up to the tilt angle gamma.  Angles are integers   *)
(* counting sixths of pi, taken from the angles for which every cosine and *)
(* every square root the function takes is rational; R and pos4d, which    *)
(* lines 225-231 derive from gamma, are not represented.                   *)
(***************************************************************************)
\* np.cos of k sixths of pi, for the k at which it is rational
cos_sixth(k) ==
    CASE k % 12 = 0 -> whole(1)
      [] k % 12 \in {2, 10} -> frac(1, 2)
      [] k % 12 \in {3, 9} -> whole(0)
      [] k % 12 \in {4, 8} -> frac(-1, 2)
      [] k % 12 = 6 -> whole(-1)

\* x is the square of a rational number
is_square(x) ==
    /\ x[1] >= 0
    /\ \E i \in 0..x[1] : i * i = x[1]
    /\ \E i \in 1..x[2] : i * i = x[2]

\* np.sqrt of the square of a rational number
qsqrt(x) ==
    frac(CHOOSE i \in 0..x[1] : i * i = x[1], CHOOSE i \in 1..x[2] : i * i = x[2])

\* np.arccos, in sixths of pi, at the values where that is an integer; nan
\* outside [-1, 1]
arccos_sixth(x) ==
    CASE x = whole(1) -> [nan |-> FALSE, sixths |-> 0]
      [] x = frac(1, 2) -> [nan |-> FALSE, sixths |-> 2]
      [] x = whole(0) -> [nan |-> FALSE, sixths |-> 3]
      [] x = frac(-1, 2) -> [nan |-> FALSE, sixths |-> 4]
      [] x = whole(-1) -> [nan |-> FALSE, sixths |-> 6]
      [] qlt(whole(1), qabs(x)) -> [nan |-> TRUE, sixths |-> 0]

\* np.sign
np_sign(a) == IF a > 0 THEN 1 ELSE IF a < 0 THEN -1 ELSE 0

\* line 224: np.sign(alpha) or 1
sign_or_1(alpha) == IF np_sign(alpha) # 0 THEN np_sign(alpha) ELSE 1

\* line 217: r
design_r(f, alpha) == qdiv(whole(f), qmul(whole(2), cos_sixth(alpha)))

\* line 218: the argument of the square root of CatH
design_CatH2(alpha, beta) ==
    qmul(whole(2), qadd(whole(1), cos_sixth(2 * (beta - alpha))))

\* line 218: CatH
design_CatH(f, alpha, beta) == qmul(design_r(f, alpha), qsqrt(design_CatH2(alpha, beta)))

\* line 219: the argument of the square root of HF
design_HF2(f, alpha, beta) ==
    qsub(qadd(whole(f * f), qmul(design_CatH(f, alpha, beta), design_CatH(f, alpha, beta))),
         qmul(qmul(whole(2 * f), design_CatH(f, alpha, beta)), cos_sixth(beta)))

\* lines 217-224: design_tilted_torus up to gamma: r, HF, the factor
\* np.sign(alpha) or 1, and gamma in sixths of pi (nan when the arccos is)
design_tilted_torus(f, alpha, beta) ==
    LET r == design_r(f, alpha)
        HF == qsqrt(design_HF2(f, alpha, beta))
        arccos == arccos_sixth(qdiv(HF, qmul(whole(2), r)))
    IN  [r |-> r, HF |-> HF, sign |-> sign_or_1(alpha), nan |-> arccos.nan,
         gamma |-> arccos.sixths * sign_or_1(alpha)]

\* the focal distances
DesignF == {1, 2}

\* the angles alpha, in sixths of pi
DesignAlpha == {-4, -2, 0, 2, 4, 6}

\* the angles beta, in sixths of pi
DesignBeta == {-4, -3, -2, 0, 2, 3, 4, 6}

\* the numbers design_tilted_torus(f, alpha, beta) computes are rational
Representable(f, alpha, beta) ==
    /\ is_square(design_CatH2(alpha, beta))
    /\ is_square(design_HF2(f, alpha, beta))
    /\ \E x \in {qdiv(qsqrt(design_HF2(f, alpha, beta)), qmul(whole(2), design_r(f, alpha)))} :
           x \in {whole(1), frac(1, 2), whole(0), frac(-1, 2), whole(-1)} \/ qlt(whole(1), qabs(x))

\* design_tilted_torus(f, alpha, beta)
DesignTiltedTorus(f, alpha, beta) ==
    /\ rowland = <<>> /\ design_in = <<>>
    /\ Representable(f, alpha, beta)
    /\ design_in' = [f |-> f, alpha |-> alpha, beta |-> beta]
    /\ design_out' = design_tilted_torus(f, alpha, beta)
    /\ UNCHANGED <<rowland, normal_in, normal_out, solve_in, solve_out,
                   assembly_vars, shared_vars, gas_vars,
                   sequence_vars>>

NextTorus ==
    \/ \E f \in DesignF, alpha \in DesignAlpha, beta \in DesignBeta :
           DesignTiltedTorus(f, alpha, beta)
    \/ \E l \in LocalLines, also \in 0..3, a, b \in IntervalEnds : SolveQuartic(l, also, a, b)
    \/ \E R \in TorusR, r \in Torus_r, kwargs \in TorusKwargs : NewRowlandTorus(R, r, kwargs)
    \/ \E p \in LocalPoints : Normal(p)
    \/ \E ps \in LocalPoints \X LocalPoints : NormalBatch(ps)

SpecTorus == InitTorus /\ [][NextTorus]_vars

(***************************************************************************)
(* Sequence: construction and process_photons.  A callable is known by its *)
(* name; a photon list is the sequence of the names of the elements that   *)
(* have processed it.                                                      *)
(***************************************************************************)
\* the longest list of elements or steps
MaxSeqLen == 2

\* the sequences of at most n entries of S
SeqsUpTo(S, n) == UNION {[1..m -> S] : m \in 0..n}

\* the entries of the list sequence: optical elements and an object that is
\* not callable
ElemNames == {"aper", "mirr", "not callable"}

\* the entries of preprocess_steps
PreNames == {"backup", "not callable"}

\* the entries of postprocess_steps
PostNames == {"report", "not callable"}

\* callable(elem)
callable(elem) == elem # "not callable"

\* lines 67-74: the outcome of Sequence.__init__
sequence_init(o) ==
    IF \E k \in 1..Len(o.sequence \o o.preprocess_steps \o o.postprocess_steps) :
           ~callable((o.sequence \o o.preprocess_steps \o o.postprocess_steps)[k])
    THEN "SimulationSetupError"
    ELSE "ok"

\* Sequence(sequence=..., preprocess_steps=..., postprocess_steps=...)
InitSequence ==
    /\ sq \in [sequence : SeqsUpTo(ElemNames, MaxSeqLen),
               preprocess_steps : SeqsUpTo(PreNames, MaxSeqLen),
               postprocess_steps : SeqsUpTo(PostNames, MaxSeqLen)]
    /\ sq_result = sequence_init(sq)
    /\ sq_pos = <<>>
    /\ photons = <<>>
    /\ calls = <<>>
    /\ NoAssembly /\ NoShared /\ NoGas /\ NoTorus

\* the position process_photons has reached when the inner loops are all done
\* after the last element
Returned == <<0, "return", 0>>

\* postprocess_steps are run after the first element only
in_post_then_elem(o, i, j) ==
    IF j <= Len(o.postprocess_steps) /\ i = 1 THEN <<i, "post", j>>
    ELSE IF i + 1 > Len(o.sequence) THEN Returned
    ELSE IF Len(o.preprocess_steps) >= 1 THEN <<i + 1, "pre", 1>>
    ELSE <<i + 1, "elem", 1>>

\* lines 77-79: the position at step j of the loop over preprocess_steps for
\* element i
in_pre(o, i, j) ==
    IF i > Len(o.sequence) THEN Returned
    ELSE IF j <= Len(o.preprocess_steps) THEN <<i, "pre", j>>
    ELSE <<i, "elem", 1>>

\* lines 81-82, 77: the position at step j of the loop over postprocess_steps
\* for element i; after it, the next element
in_post(o, i, j) ==
    IF j <= Len(o.postprocess_steps) THEN <<i, "post", j>> ELSE in_pre(o, i + 1, 1)

\* line 76: process_photons(photons) is called
ProcessPhotons ==
    /\ sq_result = "ok" /\ sq_pos = <<>>
    /\ sq_pos' = in_pre(sq, 1, 1)
    /\ photons' = <<>>
    /\ calls' = <<>>
    /\ UNCHANGED <<sq, sq_result, assembly_vars, shared_vars, gas_vars, torus_vars>>

\* line 79: p(photons) for a preprocess step; the photon list stays
RunPre ==
    /\ sq_pos # <<>> /\ sq_pos[2] = "pre"
    /\ calls' = Append(calls, [callee |-> sq.preprocess_steps[sq_pos[3]], photons |-> photons])
    /\ sq_pos' = in_pre(sq, sq_pos[1], sq_pos[3] + 1)
    /\ UNCHANGED <<sq, sq_result, photons, assembly_vars, shared_vars, gas_vars, torus_vars>>

\* line 80: photons = elem(photons)
RunElem ==
    /\ sq_pos # <<>> /\ sq_pos[2] = "elem"
    /\ calls' = Append(calls, [callee |-> sq.sequence[sq_pos[1]], photons |-> photons])
    /\ photons' = Append(photons, sq.sequence[sq_pos[1]])
    /\ sq_pos' = in_post(sq, sq_pos[1], 1)
    /\ UNCHANGED <<sq, sq_result, assembly_vars, shared_vars, gas_vars, torus_vars>>

\* line 82: p(photons) for a postprocess step
RunPost ==
    /\ sq_pos # <<>> /\ sq_pos[2] = "post"
    /\ calls' = Append(calls, [callee |-> sq.postprocess_steps[sq_pos[3]], photons |-> photons])
    /\ sq_pos' = in_post(sq, sq_pos[1], sq_pos[3] + 1)
    /\ UNCHANGED <<sq, sq_result, photons, assembly_vars, shared_vars, gas_vars, torus_vars>>

NextSequence == ProcessPhotons \/ RunPre \/ RunElem \/ RunPost

SpecSequence == InitSequence /\ [][NextSequence]_vars

(***************************************************************************)
(* Properties.                                                             *)
(***************************************************************************)
\* `elements` is what the last generate_elements call left, and the
\* attributes are still the ones that call read
Generated == pc # "init" /\ gen_inputs = Self

\* a step of generate_elements (or a step that changes nothing)
GenerateStep == Self' = Self /\ gen_inputs' = Self

\* the final transforms of a list of elements
Transforms(es) == [i \in 1..Len(es) |-> es[i].pos4d]

\* whether the decomposition of M has a shear component
HasShear(M) == decompose44(M).S # zeros3

\* the construction pose of the element at Python index i, from elem_args
ConstructionPose(i) ==
    parse_position_keywords(with_name(specific_elem_args(elem_args, elem_pos, i), i)).pos4d

\* the ordered product of eleven matrices, the leftmost applied last
Product11(m) ==
    dot(dot(dot(dot(dot(dot(dot(dot(dot(dot(m[1], m[2]), m[3]), m[4]), m[5]), m[6]),
        m[7]), m[8]), m[9]), m[10]), m[11])

\* global placement . global uncertainty . T(unc) . T(nom) . T(con) .
\* R(unc) . R(nom) . R(con) . Z(unc) . Z(nom) . Z(con) for given poses
OrderedTransform(con, nom, unc) ==
    LET dc == decompose44(con)
        dn == decompose44(nom)
        du == decompose44(unc)
    IN  Product11(<< pos4d, uncertainty,
                     translation2aff(du.T), translation2aff(dn.T), translation2aff(dc.T),
                     mat2aff(du.R), mat2aff(dn.R), mat2aff(dc.R),
                     zoom2aff(du.Z), zoom2aff(dn.Z), zoom2aff(dc.Z) >>)

\* C1: after generate_elements, the transform of every element built is the
\* ordered product global placement . global uncertainty . T(uncertainty_i) .
\* T(nominal_i) . T(construction) . R(uncertainty_i) . R(nominal_i) .
\* R(construction) . Z(uncertainty_i) . Z(nominal_i) . Z(construction), and a
\* call that succeeds builds one element per entry of elem_pos.
C1_FinalTransformOrder ==
    Generated =>
        /\ result = "ok" => Len(elements) = Len(elem_pos)
        /\ \A i \in 1..Len(elements) :
               elements[i].pos4d =
                   OrderedTransform(ConstructionPose(i - 1), elem_pos[i], elem_uncertainty[i])

\* C1 witness: two elements built from a rotated nominal pose, a rotated
\* per-element uncertainty, a rotated construction pose and a global rotation
C1_Witness ==
    /\ Generated /\ result = "ok" /\ Len(elements) = 2
    /\ uncertainty = mat2aff(Rz)
    /\ elem_pos[2] = PoseB /\ elem_uncertainty[2] = Wiggled
    /\ elem_args = ArgsPerIndex

\* C2 (as claimed): every generate_elements call that completes without error
\* leaves len(elem_uncertainty) = len(elem_pos) = len(elements).
C2_EqualLengths ==
    (Generated /\ result = "ok") =>
        /\ Len(elem_uncertainty) = Len(elem_pos)
        /\ Len(elem_pos) = Len(elements)

\* C3 (as claimed): a generate_elements call that fails leaves `elements`
\* exactly the list it held before the call.
C3_AllOrNothing ==
    [][(pc = "ready" /\ GenerateStep /\ result' # "ok") => elements' = elements]_vars

\* C4: only generate_elements changes `elements`; a step that assigns
\* elem_pos, elem_uncertainty, uncertainty or elem_args leaves it as it was.
C4_ExplicitRefresh == [][elements' # elements => GenerateStep]_vars

\* C4 witness: an attribute has been assigned since the last call, the two
\* elements are still the ones of that call, and regenerating would move them
C4_Witness ==
    /\ pc = "ready" /\ gen_inputs # Self /\ result = "ok" /\ Len(elements) = 2
    /\ generate_elements(Self, elements).result = "ok"
    /\ Transforms(generate_elements(Self, elements).elements) # Transforms(elements)

C6_ShearAlwaysRejected ==
    (Generated /\ result = "ok") =>
        \A i \in 1..Len(elem_pos) :
            /\ ~HasShear(ConstructionPose(i - 1))
            /\ ~HasShear(elem_pos[i])
            /\ ~HasShear(elem_uncertainty[i])

\* the two shear errors of generate_elements
ShearErrors ==
    {"ValueError: shear in pos4d", "SimulationSetupError: shear in uncertainty"}

\* C7 (as claimed): when generate_elements raises a shear error, elem_class
\* has not been called in that generate_elements call.
C7_ShearBeforeAnyElement == (Generated /\ result \in ShearErrors) => n_calls = 0

\* every entry of a list of poses translated by v
TranslateEach(poses, v) == [i \in 1..Len(poses) |-> dot(translation2aff(v), poses[i])]

\* whether M is a pure translation
IsTranslation(M) == M = translation2aff(col(M, 4))

\* C8: when the global uncertainty is a pure translation by v, the elements
\* have the transforms they get with no global uncertainty and v added to
\* every per-element uncertainty translation, or to every nominal centre.
C8_TranslationCommutes ==
    (Generated /\ result = "ok" /\ IsTranslation(uncertainty)) =>
        \A moved \in
            { generate_elements(Attributes(pos4d, eye4, elem_pos,
                  TranslateEach(elem_uncertainty, col(uncertainty, 4)), elem_args), <<>>),
              generate_elements(Attributes(pos4d, eye4,
                  TranslateEach(elem_pos, col(uncertainty, 4)), elem_uncertainty,
                  elem_args), <<>>) } :
            moved.result = "ok" /\ Transforms(moved.elements) = Transforms(elements)

\* C8 witness: a rotated, placed assembly of two elements with a rotated
\* per-element uncertainty, translated as a whole
C8_Witness ==
    /\ Generated /\ result = "ok" /\ Len(elements) = 2
    /\ uncertainty = translation2aff(<<0, 1, 0>>)
    /\ elem_pos = <<PoseA, PoseB>> /\ elem_uncertainty[1] = Wiggled
    /\ elem_args = ArgsPerIndex

\* the upper-left 3x3 block of a 4x4 matrix
Upper3(M) == <<SubSeq(M[1], 1, 3), SubSeq(M[2], 1, 3), SubSeq(M[3], 1, 3)>>

\* whether M is a rotation other than the identity, with no translation
IsRotation(M) ==
    /\ M = mat2aff(Upper3(M)) /\ M # eye4
    /\ decompose44(M).Z = ones3 /\ decompose44(M).S = zeros3

\* every entry of a list of poses with the rotation Q applied after its own
RotateEach(poses, Q) ==
    [i \in 1..Len(poses) |->
        LET d == decompose44(poses[i]) IN compose(d.T, dot3(Q, d.R), d.Z, d.S)]

\* the elements as they are with no global uncertainty and the rotation of the
\* global uncertainty applied to every per-element uncertainty instead
RotatedIndividually ==
    generate_elements(Attributes(pos4d, eye4, elem_pos,
        RotateEach(elem_uncertainty, Upper3(uncertainty)), elem_args), <<>>).elements

\* the nominal centre of the element at sequence index i
NominalCentre(i) == decompose44(elem_pos[i]).T

\* the centre of the element at sequence index i in the frame of the assembly:
\* nominal centre + construction offset + uncertainty translation
Centre(i) ==
    vadd(decompose44(elem_uncertainty[i]).T,
         vadd(decompose44(elem_pos[i]).T, decompose44(ConstructionPose(i - 1)).T))

\* C9 (as claimed): a rotation Q of the whole assembly and Q applied to each
\* element give different transforms for every element whose nominal centre
\* is not fixed by Q.
C9_DiffersOffNominalCentre ==
    (Generated /\ result = "ok" /\ IsRotation(uncertainty)) =>
        \E rotated \in {RotatedIndividually} :
            \A i \in 1..Len(elements) :
                matvec(Upper3(uncertainty), NominalCentre(i)) # NominalCentre(i)
                    => rotated[i].pos4d # elements[i].pos4d

\* C9 (amended): they differ for every element whose centre in the frame of
\* the assembly (nominal centre + construction offset + uncertainty
\* translation) is not fixed by Q.
C9_DiffersOffCentre ==
    (Generated /\ result = "ok" /\ IsRotation(uncertainty)) =>
        \E rotated \in {RotatedIndividually} :
            \A i \in 1..Len(elements) :
                matvec(Upper3(uncertainty), Centre(i)) # Centre(i)
                    => rotated[i].pos4d # elements[i].pos4d

\* C9 witness: a rotated assembly with one element off the rotation axis,
\* whose two transforms differ, and one on it, whose two transforms coincide
C9_Witness ==
    /\ Generated /\ result = "ok" /\ uncertainty = mat2aff(Rz) /\ Len(elements) = 2
    /\ matvec(Rz, Centre(1)) # Centre(1)
    /\ RotatedIndividually[1].pos4d # elements[1].pos4d
    /\ matvec(Rz, Centre(2)) = Centre(2)
    /\ RotatedIndividually[2].pos4d = elements[2].pos4d

\* the keywords _parse_position_keywords consumes
PositionKeywords == {"pos4d", "position", "orientation", "zoom"}

\* the value the element at sequence index i is to receive for the value v
ExpectedArg(v, i) ==
    IF v.kind = "list" /\ Len(v.items) = Len(elem_pos) THEN Value(v.items[i]) ELSE v

\* C10: element i receives v[i] for a key of elem_args exactly if v is a list
\* as long as elem_pos is at the call, and v itself otherwise; its
\* construction pose is the one the position keywords so resolved define.
C10_PerIndexResolution ==
    Generated =>
        \A i \in 1..Len(elements) :
            /\ \A k \in DOMAIN elem_args \ PositionKeywords :
                   /\ k \in DOMAIN elements[i].kwargs
                   /\ elements[i].kwargs[k] = ExpectedArg(elem_args[k], i)
            /\ elements[i].pos4d =
                   OrderedTransform(
                       parse_position_keywords(
                           [k \in DOMAIN elem_args |-> ExpectedArg(elem_args[k], i)]).pos4d,
                       elem_pos[i], elem_uncertainty[i])

\* C10 witness: two elements built from a list of two values and from values
\* that are not lists
C10_Witness ==
    /\ Generated /\ result = "ok" /\ Len(elements) = 2
    /\ elem_args = ArgsPerIndex
    /\ elements[1].kwargs["d"] = Value(7) /\ elements[2].kwargs["d"] = Value(8)
    /\ elements[2].kwargs["id_col"] = Value("element")

\* C11 (as claimed): a statement executed on A (an assignment to, or a
\* modification in place of, one of its attributes, or A.generate_elements())
\* leaves the values of B's inputs as they were, and with them the transforms
\* B.generate_elements() yields.
C11_NoSharedState ==
    [][last_op' = "A" =>
           \E before \in {Inputs("B")}, after \in {Inputs("B")'} :
               /\ after = before
               /\ Transforms(generate_elements(after, <<>>).elements)
                      = Transforms(generate_elements(before, <<>>).elements)]_vars

\* the translation part of a transform: where it takes the origin
Centre4(M) == col(M, 4)

\* a decomposition with its rotation part changed by a quarter turn about y
Rerotated(d) == [d EXCEPT !.R = dot3(Ry, d.R)]

\* a decomposition with its zoom part replaced
Rezoomed(d) == [d EXCEPT !.Z = <<2, 1, 3>>]

\* a 4x4 matrix applied to a vector of homogeneous coordinates
Apply4Row(M, v, i) == M[i][1] * v[1] + M[i][2] * v[2] + M[i][3] * v[3] + M[i][4] * v[4]

Apply4(M, v) == <<Apply4Row(M, v, 1), Apply4Row(M, v, 2), Apply4Row(M, v, 3), Apply4Row(M, v, 4)>>

\* the image of v under the product ms[1] . ms[2] . ... . ms[k]
RECURSIVE ImageUnder(_, _, _)
ImageUnder(ms, k, v) == IF k = 0 THEN v ELSE ImageUnder(ms, k - 1, Apply4(ms[k], v))

\* the centre generate_elements gives an element whose construction pose,
\* nominal pose and uncertainty decompose to de, dp and ds
CentreOf(de, dp, ds) ==
    LET v == ImageUnder(transform_factors(Self, de, dp, ds), 11, <<0, 0, 0, 1>>)
    IN  <<v[1], v[2], v[3]>>

\* C12: the centre of every element is the image of the sum of its three
\* translations under global placement . global uncertainty, and it stays the
\* same when the rotation or the zoom of the construction pose, of elem_pos[i]
\* or of elem_uncertainty[i] is changed.
C12_PivotAboutOwnCentre ==
    Generated =>
        \A i \in 1..Len(elements) :
            \E de \in {decompose44(ConstructionPose(i - 1))},
               dp \in {decompose44(elem_pos[i])},
               ds \in {decompose44(elem_uncertainty[i])} :
                /\ Centre4(elements[i].pos4d)
                       = Centre4(dot(dot(pos4d, uncertainty),
                                     translation2aff(vadd(ds.T, vadd(dp.T, de.T)))))
                /\ \A changed \in
                       { <<Rerotated(de), dp, ds>>, <<Rezoomed(de), dp, ds>>,
                         <<de, Rerotated(dp), ds>>, <<de, Rezoomed(dp), ds>>,
                         <<de, dp, Rerotated(ds)>>, <<de, dp, Rezoomed(ds)>> } :
                       CentreOf(changed[1], changed[2], changed[3])
                           = Centre4(elements[i].pos4d)

\* C12 witness: two elements off the origin of a rotated assembly, with rotated
\* and zoomed nominal poses, construction pose and per-element uncertainty
C12_Witness ==
    /\ Generated /\ result = "ok" /\ Len(elements) = 2
    /\ uncertainty = mat2aff(Rz)
    /\ elem_pos = <<PoseB, PoseA>> /\ elem_uncertainty[1] = Wiggled
    /\ elem_args = ArgsPerIndex
    /\ Centre4(elements[1].pos4d) # Centre4(elements[2].pos4d)

(***************************************************************************)
(* The tiling of GratingArrayStructure.                                    *)
(***************************************************************************)
\* the ring radii have been computed
RadiiDone == gas_pc \in {"radii", "placed"}

\* the mean of the two bounding radii
MeanRadius == qdiv(qadd(gas.radius[1], gas.radius[2]), whole(2))

\* half a facet
HalfFacet == qdiv(gas.d_facet, whole(2))

\* C13: the number of rings n is the least integer with n * d_facet >=
\* r_max - r_min; there are exactly n radii, the k-th (from 0) being
\* mean + (k - (n - 1) / 2) * d_facet, so neighbours are d_facet apart; the
\* rings cover [r_min, r_max] and overhang both ends by the same amount.
C13_RadialTiling ==
    RadiiDone =>
        /\ qle(qsub(gas.radius[2], gas.radius[1]), qmul(whole(Len(gas_radii)), gas.d_facet))
        /\ qlt(qmul(whole(Len(gas_radii) - 1), gas.d_facet), qsub(gas.radius[2], gas.radius[1]))
        /\ \A k \in 0..(Len(gas_radii) - 1) :
               gas_radii[k + 1]
                   = qadd(MeanRadius,
                          qmul(qsub(whole(k), frac(Len(gas_radii) - 1, 2)), gas.d_facet))
        /\ \A k \in 1..(Len(gas_radii) - 1) :
               qsub(gas_radii[k + 1], gas_radii[k]) = gas.d_facet
        /\ qle(qsub(gas_radii[1], HalfFacet), gas.radius[1])
        /\ qle(gas.radius[2], qadd(gas_radii[Len(gas_radii)], HalfFacet))
        /\ qsub(gas.radius[1], qsub(gas_radii[1], HalfFacet))
               = qsub(qadd(gas_radii[Len(gas_radii)], HalfFacet), gas.radius[2])

\* three rings or more that overhang the bounding radii
C13_Witness ==
    /\ RadiiDone
    /\ Len(gas_radii) >= 3
    /\ qlt(qsub(gas_radii[1], HalfFacet), gas.radius[1])

\* the inner edge of ring k times the angular span: the arc length available
\* to the facets of the ring
InnerArc(k) == qmul(qsub(gas_radii[k], HalfFacet), anglediff(gas))

\* C14 (as claimed): the number of tiles on every ring is
\* floor((radius - d_facet / 2) * angular_span / d_facet), and it does not
\* decrease from a ring to the next larger one.
C14_TilesOnRing ==
    \A k \in 1..Len(gas_angles) :
        /\ qle(qmul(whole(Len(gas_angles[k])), gas.d_facet), InnerArc(k))
        /\ qlt(InnerArc(k), qmul(whole(Len(gas_angles[k]) + 1), gas.d_facet))
        /\ \A j \in 1..(k - 1) : Len(gas_angles[j]) <= Len(gas_angles[k])

\* C14 (amended): the number of tiles on every ring is
\* max(0, floor((radius - d_facet / 2) * angular_span / d_facet)), and it does
\* not decrease from a ring to the next larger one.
C14_TilesOnRingOrNone ==
    \A k \in 1..Len(gas_angles) :
        /\ Len(gas_angles[k]) > 0 =>
               qle(qmul(whole(Len(gas_angles[k])), gas.d_facet), InnerArc(k))
        /\ qlt(InnerArc(k), qmul(whole(Len(gas_angles[k]) + 1), gas.d_facet))
        /\ \A j \in 1..(k - 1) : Len(gas_angles[j]) <= Len(gas_angles[k])

\* a ring whose inner edge is at a negative radius, and a larger ring that
\* holds several tiles
C14_Witness ==
    /\ gas_pc = "placed"
    /\ qlt(InnerArc(1), whole(0))
    /\ gas_angles[1] = <<>>
    /\ Len(gas_angles[Len(gas_angles)]) >= 2

\* the angle a lies on the counter-clockwise arc from phi[0] to phi[1], both
\* taken mod 2 pi; bounds exactly 2 pi apart enclose the full circle
InArc(a) ==
    /\ qle(whole(0), a) /\ qlt(a, TwoPi)
    /\ \/ qsub(gas.phi[2], gas.phi[1]) = TwoPi
       \/ qle(qmod(qsub(a, gas.phi[1]), TwoPi), qmod(qsub(gas.phi[2], gas.phi[1]), TwoPi))

\* C15: every angle of every ring lies on the counter-clockwise arc from
\* phi[0] to phi[1], and a ring whose inner edge is too short for one tile
\* (a ring with an inner edge at or below zero included) gets the empty
\* sequence of angles.
C15_AnglesInArc ==
    \A k \in 1..Len(gas_angles) :
        /\ qlt(InnerArc(k), gas.d_facet) => gas_angles[k] = <<>>
        /\ \A i \in 1..Len(gas_angles[k]) : InArc(gas_angles[k][i])

\* an arc that wraps through 0, with an overhanging ring that holds no tile
\* and a ring with tiles on both sides of 0
C15_Witness ==
    /\ gas_pc = "placed"
    /\ qlt(gas.phi[2], gas.phi[1])
    /\ qle(InnerArc(1), whole(0)) /\ gas_angles[1] = <<>>
    /\ \E k \in 1..Len(gas_angles) : \E i, j \in 1..Len(gas_angles[k]) :
           /\ qlt(gas.phi[1], gas_angles[k][i])
           /\ qlt(gas_angles[k][j], gas.phi[2])

\* the angle, in radians, of an arc of length d_facet on ring k
TileWidth(k) == qdiv(gas.d_facet, gas_radii[k])

\* the gap that spreads the n tiles of ring k evenly over the angular span
EvenGap(k) ==
    qdiv(qsub(anglediff(gas), qmul(whole(Len(gas_angles[k])), TileWidth(k))),
         whole(Len(gas_angles[k]) + 1))

\* the angle from phi[0] to the centre of tile i of ring k
CentreOffset(k, i) == qmod(qsub(gas_angles[k][i], gas.phi[1]), TwoPi)

\* C16 (as claimed): on every ring with tiles, the gap before the first
\* tile, between neighbours and after the last tile is
\* (angular_span - n * w) / (n + 1), w being the angle a length d_facet takes
\* at the ring radius; neighbouring centres are w + gap apart and the tiles
\* do not overlap.
C16_EvenDistribution ==
    \A k \in 1..Len(gas_angles) :
        Len(gas_angles[k]) >= 1 =>
            /\ qsub(CentreOffset(k, 1), qdiv(TileWidth(k), whole(2))) = EvenGap(k)
            /\ \A i \in 1..(Len(gas_angles[k]) - 1) :
                   qsub(CentreOffset(k, i + 1), CentreOffset(k, i))
                       = qadd(TileWidth(k), EvenGap(k))
            /\ qsub(anglediff(gas),
                    qadd(CentreOffset(k, Len(gas_angles[k])), qdiv(TileWidth(k), whole(2))))
                   = EvenGap(k)
            /\ qle(whole(0), EvenGap(k))

\* the checks of __init__ have accepted the bounds
Accepted == gas_pc \in {"checked", "radii", "placed"}

\* C17 (as claimed): for every accepted phi the sweep that counts and
\* distributes the tiles is (phi[1] - phi[0]) mod 2 pi, and the sweep that
\* calc_ideal_center halves is the same value.
C17_OneSweep ==
    Accepted =>
        /\ anglediff(gas) = qmod(qsub(gas.phi[2], gas.phi[1]), TwoPi)
        /\ ideal_center_anglediff(gas) = anglediff(gas)

\* bounds the tiler must refuse: r_max > r_min does not hold, a radius is
\* negative, or an angle is above 10 in magnitude
BadBounds ==
    \/ qle(gas.radius[2], gas.radius[1])
    \/ \E i \in 1..2 : gas.radius[i][1] < 0
    \/ \E i \in 1..2 : gas.phi[i][1] > 10 * gas.phi[i][2] \/ -gas.phi[i][1] > 10 * gas.phi[i][2]

\* C18: once __init__ has run its checks, construction has failed with an
\* error exactly for the bounds the tiler must refuse, and a failed
\* construction has computed no ring and no nominal pose.
C18_FailsFast ==
    gas_pc # "new" =>
        /\ gas_pc = "failed" <=> BadBounds
        /\ gas_pc = "failed" =>
               /\ gas_result \notin {"ok", "none"}
               /\ gas_radii = <<>> /\ gas_angles = <<>>
        /\ gas_pc # "failed" => gas_result = "ok"

\* a construction refused for a negative angle of large magnitude alone
C18_Witness ==
    /\ gas_pc = "failed"
    /\ gas.phi = <<whole(-11), Pi>>
    /\ gas.radius = <<whole(0), whole(1)>>
    /\ gas_radii = <<>>

(***************************************************************************)
(* The torus.                                                              *)
(***************************************************************************)
\* C19 (as claimed): every torus that exists has R > 0 and r > 0, a
\* construction with a non-positive radius having failed.
C19_PositiveRadii == rowland # <<>> => rowland.R > 0 /\ rowland.r > 0

\* the analytic gradient of (x^2 + y^2 + z^2 + R^2 - r^2)^2 - 4 R^2 (x^2 + y^2)
\* at the local point p
Gradient(p) ==
    <<4 * p[1] * (vdot(p, p) - rowland.R * rowland.R - rowland.r * rowland.r),
      4 * p[2] * (vdot(p, p) - rowland.R * rowland.R - rowland.r * rowland.r),
      4 * p[3] * (vdot(p, p) + rowland.R * rowland.R - rowland.r * rowland.r)>>

\* normal has returned a gradient for a torus with positive radii
NormalReturned ==
    /\ normal_out # <<>> /\ "gradient" \in DOMAIN normal_out /\ normal_out.error = "none"
    /\ rowland.R > 0 /\ rowland.r > 0

\* C20 (as claimed): the normal at the image of an on-surface point is the
\* analytic gradient at the point in the local frame turned by the rotation
\* of the placement, whatever the translation and the zoom of the placement.
C20_RotationOnly ==
    NormalReturned =>
        normal_out.gradient = matvec(decompose44(rowland.pos4d).R, Gradient(normal_in.point))

\* the local point p satisfies the equation of the torus
OnSurface(p) ==
    (vdot(p, p) + rowland.R * rowland.R - rowland.r * rowland.r)
        * (vdot(p, p) + rowland.R * rowland.R - rowland.r * rowland.r)
        = 4 * rowland.R * rowland.R * (p[1] * p[1] + p[2] * p[2])

\* the local points whose images the last call of normal was given
NormalPoints ==
    IF "points" \in DOMAIN normal_in THEN normal_in.points ELSE <<normal_in.point>>

\* C21: whatever R and r are, a call of normal with a point or an array of
\* points of which one does not lie on the torus raises an error and returns
\* no gradient.
C21_OffSurfaceRejected ==
    (normal_in # <<>> /\ \E i \in 1..Len(NormalPoints) : ~OnSurface(NormalPoints[i])) =>
        /\ normal_out.error = "ValueError"
        /\ "gradients" \in DOMAIN normal_out => normal_out.gradients = <<>>
        /\ "gradient" \in DOMAIN normal_out => normal_out.gradient = <<>>

\* an array whose first point lies on a torus of positive radii and whose
\* second point does not
C21_Witness ==
    /\ normal_in # <<>> /\ "points" \in DOMAIN normal_in
    /\ rowland.R > 0 /\ rowland.r > 0
    /\ OnSurface(normal_in.points[1]) /\ ~OnSurface(normal_in.points[2])
    /\ normal_out.error = "ValueError"

\* the coordinate solve_quartic was asked to solve for
SolvedAxis == CHOOSE i \in 1..3 : solve_in.coords[i][1]

\* the global point completed with the value v of the solved coordinate
CompletedPoint(v) ==
    [i \in 1..3 |-> IF i = SolvedAxis THEN v ELSE solve_in.coords[i][2]]

\* the point at s on the local line of the call
LinePoint(s) == [i \in 1..3 |-> IF i = solve_in.line.axis THEN s ELSE solve_in.line.point[i]]

\* the global point g is the image under the placement of a point of the
\* local line that satisfies the equation of the torus
IsRoot(g) ==
    \E s \in -12..12 :
        /\ OnSurface(LinePoint(s))
        /\ h2e(einsum_ij_j(rowland.pos4d, e2h(LinePoint(s), 1))) = g

\* the quartic has the same strict sign at both ends of the interval
SameSign ==
    \E fa \in {quartic_global(rowland, CompletedPoint(solve_in.interval[1]))},
       fb \in {quartic_global(rowland, CompletedPoint(solve_in.interval[2]))} :
        (fa > 0 /\ fb > 0) \/ (fa < 0 /\ fb < 0)

\* C22: a call of solve_quartic with exactly one coordinate left open has
\* ended, with an error or with a value; an interval with the same sign of
\* the quartic at both ends gives an error; a value returned lies in the
\* interval and completes the given coordinates to a point of the torus.
C22_RootInBracket ==
    (solve_out # <<>> /\ Cardinality(Nones(solve_in.coords)) = 1) =>
        /\ SameSign => solve_out.error # "none"
        /\ solve_out.error = "none" =>
               /\ solve_in.interval[1] <= solve_out.val_out
               /\ solve_out.val_out <= solve_in.interval[2]
               /\ IsRoot(CompletedPoint(solve_out.val_out))

\* a root returned for a torus of positive radii that is turned and zoomed,
\* strictly inside the interval
C22_Witness ==
    /\ solve_out # <<>> /\ solve_out.error = "none"
    /\ rowland.R > 0 /\ rowland.r > 0
    /\ decompose44(rowland.pos4d).R = Rz /\ decompose44(rowland.pos4d).Z = <<1, 2, 1>>
    /\ SolvedAxis # solve_in.line.axis
    /\ solve_in.interval[1] < solve_out.val_out
    /\ solve_out.val_out < solve_in.interval[2]

\* C23 (as claimed): the centre for the polar angle 0 at a radius lies on
\* the positive y axis (y = radius, z = 0), and a quarter turn of the angle
\* takes it counter-clockwise in the yz-plane, to the positive z axis, then
\* to the negative y axis, then to the negative z axis.
C23_PhiZeroOnY ==
    yz_out # <<>> =>
        /\ yz_out.y = qmul(ra_in.radius, whole(<<1, 0, -1, 0>>[(ra_in.quarter_turns % 4) + 1]))
        /\ yz_out.z = qmul(ra_in.radius, whole(<<0, 1, 0, -1>>[(ra_in.quarter_turns % 4) + 1]))

\* C24: the factor of gamma is +1 for alpha > 0, -1 for alpha < 0 and +1 for
\* alpha = 0, never 0; gamma is that factor times the arccos value, the
\* angle between 0 and pi whose cosine is HF / (2 r).
C24_GammaSign ==
    design_out # <<>> =>
        /\ design_out.sign = (IF design_in.alpha < 0 THEN -1 ELSE 1)
        /\ design_out.sign # 0
        /\ ~design_out.nan =>
               /\ design_out.sign * design_out.gamma \in 0..6
               /\ cos_sixth(design_out.sign * design_out.gamma)
                      = qdiv(design_out.HF, qmul(whole(2), design_out.r))

\* alpha = 0 with an arccos value that is not 0
C24_Witness ==
    /\ design_out # <<>> /\ design_in.alpha = 0
    /\ ~design_out.nan /\ design_out.gamma > 0

(***************************************************************************)
(* Sequence.                                                               *)
(***************************************************************************)
\* the number of calls process_photons makes for one element
CallsPerElement == Len(sq.preprocess_steps) + 1 + Len(sq.postprocess_steps)

\* the n-th call process_photons is to make: in round i, the preprocess
\* steps in list order on the output of element i - 1, then element i on the
\* same list, then the postprocess steps in list order on its output
ExpectedCall(n) ==
    LET i == ((n - 1) \div CallsPerElement) + 1
        k == ((n - 1) % CallsPerElement) + 1
    IN  IF k <= Len(sq.preprocess_steps)
        THEN [callee |-> sq.preprocess_steps[k], photons |-> SubSeq(sq.sequence, 1, i - 1)]
        ELSE IF k = Len(sq.preprocess_steps) + 1
        THEN [callee |-> sq.sequence[i], photons |-> SubSeq(sq.sequence, 1, i - 1)]
        ELSE [callee |-> sq.postprocess_steps[k - Len(sq.preprocess_steps) - 1],
              photons |-> SubSeq(sq.sequence, 1, i)]

\* C25: construction fails with SimulationSetupError exactly when an element
\* or a step is not callable; the calls process_photons has made are, in
\* order, the first of the calls expected of it (every element once, in list
\* order, on the output of the one before, with all preprocess steps before
\* it and all postprocess steps after it), and when it returns it has made
\* all of them and returns the output of the last element.
C25_SequenceOrder ==
    /\ sq_result = "SimulationSetupError" <=>
           \/ \E k \in 1..Len(sq.sequence) : sq.sequence[k] = "not callable"
           \/ \E k \in 1..Len(sq.preprocess_steps) : sq.preprocess_steps[k] = "not callable"
           \/ \E k \in 1..Len(sq.postprocess_steps) : sq.postprocess_steps[k] = "not callable"
    /\ sq_result = "SimulationSetupError" => sq_pos = <<>> /\ calls = <<>>
    /\ \A n \in 1..Len(calls) : calls[n] = ExpectedCall(n)
    /\ sq_pos = Returned =>
           /\ Len(calls) = Len(sq.sequence) * CallsPerElement
           /\ photons = sq.sequence

\* process_photons has returned from two elements with two preprocess steps
\* and a postprocess step
C25_Witness ==
    /\ sq_pos = Returned
    /\ Len(sq.sequence) = 2 /\ Len(sq.preprocess_steps) = 2 /\ Len(sq.postprocess_steps) >= 1
    /\ Len(calls) >= 8

(***************************************************************************)
(* Per-element uncertainties.                                              *)
(***************************************************************************)
\* the step perturbs entry i of x.elem_uncertainty, by assignment or in place
PerturbsElemUncertainty(x, i) ==
    \E M \in AssignedMats :
        AssignElemUncertaintyItem(x, i, M) \/ ModifyElemUncertaintyItem(x, i, M)

\* the final transforms x.generate_elements() yields from the attributes v
FinalTransforms(v) == Transforms(generate_elements(v, <<>>).elements)

\* C26 (as claimed): perturbing x.elem_uncertainty[i], by assignment or by
\* modification in place, and regenerating leaves the final transform of
\* every element j # i as it was.
C26_IndependentUncertainty ==
    [][\A x \in Assemblies, i \in 1..MaxElems :
           PerturbsElemUncertainty(x, i) =>
               \E before \in {FinalTransforms(Inputs(x))},
                  after \in {FinalTransforms(Inputs(x)')} :
                   \A j \in (1..Len(before)) \ {i} :
                       j <= Len(after) /\ after[j] = before[j]]_vars

(***************************************************************************)
(* Element ids and the order of application.                               *)
(***************************************************************************)
\* the ids 0, ..., n - 1 in this order
FirstIds(n) == [i \in 1..n |-> i - 1]

\* C27: after a successful generate_elements there is one element for every
\* entry of elem_pos, the element at index i has id i and is placed with the
\* nominal pose elem_pos[i]; process_photons calls the elements of the list
\* in index order, each once, on the output of the one before, so that a
\* successfully generated assembly applies the ids 0, ..., n - 1 in order.
C27_IdsInOrder ==
    /\ result = "ok" /\ pc # "init" =>
           \A i \in 1..Len(elements) : elements[i].id_num = i - 1
    /\ Generated /\ result = "ok" =>
           /\ Len(elements) = Len(elem_pos)
           /\ \A i \in 1..Len(elements) :
                  elements[i].pos4d =
                      OrderedTransform(ConstructionPose(i - 1), elem_pos[i],
                                       elem_uncertainty[i])
    /\ pc = "processed" =>
           /\ Len(applied.calls) = Len(elements)
           /\ \A i \in 1..Len(elements) :
                  /\ applied.calls[i].elem = elements[i]
                  /\ applied.calls[i].photons = [j \in 1..(i - 1) |-> elements[j].id_num]
           /\ applied.photons = [j \in 1..Len(elements) |-> elements[j].id_num]
           /\ result = "ok" => applied.photons = FirstIds(Len(elements))

\* process_photons has been called on a successfully generated assembly of
\* two elements with different nominal poses
C27_Witness ==
    /\ pc = "processed" /\ Generated /\ result = "ok"
    /\ Len(elements) = 2 /\ elem_pos[1] # elem_pos[2]
    /\ applied.photons = <<0, 1>>

====
